---- MODULE Spec2Model ----
(***************************************************************************)
(* Verification model of the workshop notebooks of                         *)
(* icomse/11th_workshop_mesoscale_modeling.                                *)
(*                                                                         *)
(* Every notebook is an independent kernel session; the variable nb names  *)
(* the session a behaviour belongs to and each specification below fixes   *)
(* it in its initial predicate.  The simulation engine (HOOMD-blue) is a   *)
(* black box: a run advances the timestep and leaves the particles in some *)
(* state the engine chooses.                                               *)
(***************************************************************************)
EXTENDS Integers, Sequences, FiniteSets, TLC

VARIABLES
    nb,             \* the notebook (kernel session) being executed
    pc,             \* the next statement of that notebook
    \* ---- the engine's simulation object
    timestep,       \* simulation.timestep
    simPos,         \* particle positions held by simulation.state
    simVel,         \* particle velocities held by simulation.state
    fieldVel,       \* velocity_field.velocities, the engine's compute
    i,              \* the loop index of the cell being executed
    \* ---- Python variables of the sampling loops
    snapshot,       \* last value of simulation.state.get_snapshot()
    r0, r1, r2,     \* position copies of the diffusion loop
    msd1, msd2,     \* mean-squared displacements (rationals)
    D,              \* diffusion estimates, one per sample (rationals)
    t0, t1, t2,     \* history: simulation.timestep when r0, r1, r2 were read
    times,          \* warm-up loop: times[i]
    kinetic_energy, \* warm-up loop: kinetic_energy[i] (rationals)
    avg_velocity_field, \* production loop accumulator
    \* ---- the MPCD integrator's configuration and what its last step did
    collision_period,   \* integrator.collision_method.period (0: not set)
    streaming_period,   \* integrator.streaming_method.period (0: not set)
    sorter_trigger,     \* integrator.mpcd_particle_sorter.trigger (0: not set)
    collided, streamed, sorted, \* what happened at timestep - 1
    \* ---- the polymer notebooks ("md" template and "langevin")
    os_bound,       \* whether the name os is bound in the kernel
    raised,         \* the exception a cell ended with ("" when none)
    polymer_gsd,    \* the file polymer.gsd in the working directory
    positions,      \* positions[i], i in 0..N-1
    frame,          \* the gsd.hoomd.Frame being built
    \* ---- the energy analysis cell of the "md" template
    data,           \* the rows loaded from thermo-{t}.dat
    tot_e, dev, yval,
    averages,       \* averages[i], one entry per time step size
    printed,        \* the numbers printed, in units of 10^-4
    \* ---- the periodic boundary notebook ("pbc"): dist and dist_pbc
    x1, x0,         \* the arguments of a call outside the test cell
    r_dist,         \* what dist(x1, x0) returned
    r_dist_pbc,     \* what dist_pbc(x1, x0, Box) returned
    returned,       \* what the calls of the test cell returned, in order
    stdout,         \* the rows the test cell printed, in units of 10^-3
    \* ---- the periodic boundary notebook ("pbc"): a call of pair_corr
    A, B, number_of_bins, rmax,     \* its arguments (Box is the test cell's)
    \* d_B is the d of the loop body
    bins, hist_all, d_B, hist, bincenters,
    \* ---- the periodic boundary notebook ("pbc"): the radius of gyration loop
    trajectory_len, \* len(trajectory)
    topology,       \* the bond array every frame of the trajectory holds
    traj_frame,     \* the frame of the loop (i frames have been read)
    unwrapped_positions, bonds, polymer_delimiters, polymers,
    ip,             \* how many of polymers the inner loop has been through
    com, Rg2,
    rg2,
    rg2_timestep,   \* the list timestep of the loop
    \* ---- history of the production loop of "pflow"
    field_samples,  \* velocity_field.velocities as read in each iteration
    \* ---- notebook "mpcd": the initial velocities of the MPCD particles
    mpcd_N,         \* snapshot.mpcd.N
    velocity,
    snapshot_mpcd_velocity,
    \* ---- notebook "langevin": a call of block_average(data, num_blocks)
    ba_data,        \* its argument data
    num_blocks,
    traj_length, block_size, blocks, block_means,
    mean,
    std_error,      \* held as its square
    \* ---- notebook "pbc": the movie of the polymer trajectory; an image is held
    \* as the index of the trajectory frame it renders
    im0, ims,
    test_gif,       \* the images of the file test.gif, in order
    \* ---- notebook "viz": the example trajectory
    example_gsd,    \* the frames of the file example.gsd, in order
    \* ---- notebook "pbc": render(frame)
    scene_frame,    \* the frame render is called with
    sphere_position, \* geometry.position
    all_bonds, bond_distances, bond_indices, filtered_bonds,
    cylinder        \* the Cylinder geometry of the scene: N and points; N = -1 if there is none

loopVars == <<snapshot, r0, r1, r2, msd1, msd2, D, t0, t1, t2,
              times, kinetic_energy, avg_velocity_field, field_samples>>
engineVars == <<timestep, simPos, simVel, fieldVel>>
integratorVars == <<collision_period, streaming_period, sorter_trigger,
                    collided, streamed, sorted>>
polymerVars == <<os_bound, raised, polymer_gsd, positions, frame>>
energyVars == <<data, tot_e, dev, yval, averages, printed>>
distVars == <<x1, x0, r_dist, r_dist_pbc, returned, stdout>>
pairCorrVars == <<A, B, number_of_bins, rmax, bins, hist_all, d_B, hist, bincenters>>
rgVars == <<trajectory_len, topology, traj_frame, unwrapped_positions, bonds,
            polymer_delimiters, polymers, ip, com, Rg2, rg2, rg2_timestep>>
velVars == <<mpcd_N, velocity, snapshot_mpcd_velocity>>
blockVars == <<ba_data, num_blocks, traj_length, block_size, blocks, block_means, mean, std_error>>
movieVars == <<im0, ims, test_gif>>
exampleVars == <<example_gsd>>
renderVars == <<scene_frame, sphere_position, all_bonds, bond_distances, bond_indices, filtered_bonds, cylinder>>
vars == <<nb, pc, i, engineVars, loopVars, integratorVars, polymerVars, energyVars,
          distVars, pairCorrVars, rgVars,
    velVars,
    blockVars,
    movieVars,
    exampleVars,
    renderVars>>
\* what the actions of the sampling notebooks leave alone besides their own variables
otherThanLoops == <<integratorVars, polymerVars, energyVars, distVars, pairCorrVars,
    rgVars,
    velVars,
    blockVars,
    movieVars,
    exampleVars,
    renderVars>>
\* what the actions of the integrator configuration leave alone
otherThanIntegrator == <<loopVars, polymerVars, energyVars, distVars, pairCorrVars,
    rgVars,
    velVars,
    blockVars,
    movieVars,
    exampleVars,
    renderVars>>
\* what the actions of the polymer notebooks leave alone
otherThanPolymer == <<engineVars, loopVars, integratorVars, energyVars, distVars, pairCorrVars,
    rgVars,
    velVars,
    blockVars,
    movieVars,
    exampleVars,
    renderVars>>
\* what the energy analysis leaves alone
otherThanEnergy == <<engineVars, loopVars, integratorVars, polymerVars, distVars, pairCorrVars,
    rgVars,
    velVars,
    blockVars,
    movieVars,
    exampleVars,
    renderVars>>
\* what the distance cells leave alone
otherThanDist == <<engineVars, loopVars, integratorVars, polymerVars, energyVars,
                   pairCorrVars, rgVars,
    velVars,
    blockVars,
    movieVars,
    exampleVars,
    renderVars>>
\* what a call of pair_corr leaves alone
otherThanPairCorr == <<engineVars, loopVars, integratorVars, polymerVars, energyVars,
                       distVars, rgVars,
    velVars,
    blockVars,
    movieVars,
    exampleVars,
    renderVars>>
\* what the radius of gyration loop leaves alone
otherThanRg == <<engineVars, loopVars, integratorVars, polymerVars, energyVars,
                 distVars, pairCorrVars,
    velVars,
    blockVars,
    movieVars,
    exampleVars,
    renderVars>>
\* what the initialisation of the velocities leaves alone
otherThanVel == <<engineVars, loopVars, integratorVars, polymerVars, energyVars, distVars, pairCorrVars, rgVars,
    blockVars,
    movieVars,
    exampleVars,
    renderVars>>
\* what a call of block_average leaves alone
otherThanBlock == <<engineVars, loopVars, integratorVars, polymerVars, energyVars, distVars, pairCorrVars, rgVars, velVars,
    movieVars,
    exampleVars,
    renderVars>>
\* what the movie cell leaves alone
otherThanMovie == <<engineVars, loopVars, integratorVars, polymerVars, energyVars, distVars, pairCorrVars, rgVars, velVars, blockVars,
    exampleVars,
    renderVars>>
\* what writing example.gsd leaves alone
otherThanExample == <<engineVars, loopVars, integratorVars, polymerVars, energyVars, distVars, pairCorrVars, rgVars, velVars, blockVars, movieVars,
    renderVars>>
\* what render leaves alone
otherThanRender == <<engineVars, loopVars, integratorVars, polymerVars, energyVars, distVars, pairCorrVars, rgVars, velVars, blockVars, movieVars, exampleVars>>

(***************************************************************************)
(* Bounds of the model.                                                    *)
(***************************************************************************)
\* number of particles of the scaled-down system
NP == 1
\* number of samples taken by each sampling loop (num_samples, scaled down)
num_samples == 2
\* number of timesteps the integrator is followed for
MaxTimestep == 40
\* most frames a polymer.gsd left by an earlier session holds
MaxOldFrames == 2
\* most rows of a thermo-{t}.dat
MaxRows == 3
\* most particles in each of the arrays handed to pair_corr
MaxAtoms == 2
\* largest number_of_bins handed to pair_corr
MaxBins == 2
\* most frames in the trajectory of the radius of gyration loop
MaxFrames == 2
\* most MPCD particles of the snapshot whose velocities are initialised
MaxMpcdN == 3
\* most samples in the data handed to block_average
MaxData == 4
\* most frames of the polymer trajectory the movie is made of
MaxTrajectory == 1100
\* most bonds of a frame given to render
MaxBonds == 2
\* edge length of the scaled-down periodic box
L == 4

Particles == 1..NP

(***************************************************************************)
(* Exact arithmetic: a rational is a pair <<numerator, denominator>> with  *)
(* a positive denominator.                                                 *)
(***************************************************************************)
Rat(n, d) == <<n, d>>
RatEq(a, b) == a[1] * b[2] = b[1] * a[2]
RatSub(a, b) == <<a[1] * b[2] - b[1] * a[2], a[2] * b[2]>>
RatAdd(a, b) == <<a[1] * b[2] + b[1] * a[2], a[2] * b[2]>>
\* a < b, for positive denominators
RatLess(a, b) == a[1] * b[2] < b[1] * a[2]
RECURSIVE GCD(_, _)
GCD(a, b) == IF b = 0 THEN a ELSE GCD(b, a % b)
Abs(x) == IF x < 0 THEN -x ELSE x
\* lowest terms, positive denominator
RatNorm(a) ==
    LET g == GCD(Abs(a[1]), Abs(a[2]))
        sgn == IF a[2] < 0 THEN -1 ELSE 1
    IN  IF a[1] = 0 THEN <<0, 1>> ELSE <<sgn * (a[1] \div g), sgn * (a[2] \div g)>>
RatMul(a, b) == RatNorm(<<a[1] * b[1], a[2] * b[2]>>)
RatDiv(a, b) == RatNorm(<<a[1] * b[2], a[2] * b[1]>>)
RatAbs(a) == <<Abs(a[1]), Abs(a[2])>>
RatDivInt(a, k) == <<a[1], a[2] * k>>
RatMulInt(a, k) == <<a[1] * k, a[2]>>

RECURSIVE SumSeq(_)
SumSeq(s) == IF s = <<>> THEN 0 ELSE Head(s) + SumSeq(Tail(s))

\* numpy.round(n / d) for n >= 0, d > 0: round half to even
RoundHalfEven(n, d) ==
    LET q == n \div d
        r == n % d
    IN  IF 2 * r < d THEN q
        ELSE IF 2 * r > d THEN q + 1
        ELSE IF q % 2 = 0 THEN q ELSE q + 1

(***************************************************************************)
(* The engine.  Positions are points of a periodic cubic box of edge L     *)
(* centred at the origin; what a run does to the particles is the engine's *)
(* choice among the states below.                                          *)
(***************************************************************************)
Sites == {<<1, 1, 0>>, <<-2, -2, 1>>}
Velocities == {<<1, 0, 0>>, <<-2, 1, 0>>}
PosStates == [Particles -> Sites]
VelStates == [Particles -> Velocities]
\* velocity_field.velocities: one velocity per bin (two bins across the gap)
Fields == {<< <<0, 0, 0>>, <<0, 0, 0>> >>, << <<1, 0, 0>>, <<2, 0, 0>> >>,
           << <<3, 0, -1>>, <<1, 1, 0>> >>}
ZeroField == << <<0, 0, 0>>, <<0, 0, 0>> >>

\* integrator.dt of each notebook, as a rational
dt == [n \in {"mpcd", "pflow", "md"} |->
        CASE n = "mpcd"  -> Rat(1, 1)
          [] n = "pflow" -> Rat(1, 10)
          [] n = "md"    -> Rat(5, 1000)]

\* simulation.run(steps): the engine advances the clock and moves the particles
run(steps) ==
    /\ timestep' = timestep + steps
    /\ simPos' \in PosStates
    /\ simVel' \in VelStates
    /\ fieldVel' \in Fields

\* simulation.state.get_snapshot(): a copy of the particle data
get_snapshot == [position |-> simPos, velocity |-> simVel]

\* freud Box.wrap of one coordinate into [-L/2, L/2)
wrap1(x) == x - L * ((2 * x + L) \div (2 * L))
wrap(v) == <<wrap1(v[1]), wrap1(v[2]), wrap1(v[3])>>
VecSub(a, b) == <<a[1] - b[1], a[2] - b[2], a[3] - b[3]>>
VecAdd(a, b) == <<a[1] + b[1], a[2] + b[2], a[3] + b[3]>>
SumSq(v) == v[1] * v[1] + v[2] * v[2] + v[3] * v[3]

\* numpy.mean(numpy.sum(box.wrap(ra - rb)**2, axis=1))
meanSquaredDisplacement(ra, rb) ==
    Rat(SumSeq([p \in Particles |-> SumSq(wrap(VecSub(ra[p], rb[p])))]), NP)

(***************************************************************************)
(* Notebook "mpcd": the diffusion sampling loop.                           *)
(***************************************************************************)
wait_time == 2
sample_time == 2

\* numpy.round(t / integrator.dt).astype(int)
stepsFor(t) == RoundHalfEven(t * dt[nb][2], dt[nb][1])

NoPos == [p \in Particles |-> <<0, 0, 0>>]
NoSnapshot == [position |-> NoPos, velocity |-> NoPos]
ZeroRat == Rat(0, 1)

\* snapshot = get_snapshot(); r0 = numpy.array(snapshot.mpcd.position)
SaveInitial ==
    /\ nb = "mpcd" /\ pc = "save_r0"
    /\ snapshot' = get_snapshot
    /\ r0' = simPos
    /\ t0' = timestep
    /\ pc' = "run_wait"
    /\ UNCHANGED <<nb, otherThanLoops, engineVars, i, r1, r2, msd1, msd2, D, t1, t2,
                   times, kinetic_energy, avg_velocity_field, field_samples>>

\* simulation.run(numpy.round(wait_time / integrator.dt).astype(int))
RunWait ==
    /\ nb = "mpcd" /\ pc = "run_wait"
    /\ run(stepsFor(wait_time))
    /\ pc' = "measure1"
    /\ UNCHANGED <<nb, i, loopVars, otherThanLoops>>

\* Measure1 as it would be if the wrapped positions were stored back into the state
Measure1WriteBack ==
    /\ nb = "mpcd" /\ pc = "measure1"
    /\ snapshot' = get_snapshot
    /\ r1' = simPos
    /\ t1' = timestep
    /\ msd1' = meanSquaredDisplacement(simPos, r0)
    /\ simPos' = r0
    /\ pc' = "run_sample"
    /\ UNCHANGED <<nb, otherThanLoops, timestep, simVel, fieldVel, i, r0, r2, msd2,
                   D, t0, t2, times, kinetic_energy, avg_velocity_field, field_samples>>

\* snapshot, r1, box, dr, msd1
Measure1 ==
    /\ nb = "mpcd" /\ pc = "measure1"
    /\ snapshot' = get_snapshot
    /\ r1' = simPos
    /\ t1' = timestep
    /\ msd1' = meanSquaredDisplacement(simPos, r0)
    /\ pc' = "run_sample"
    /\ UNCHANGED <<nb, otherThanLoops, engineVars, i, r0, r2, msd2, D, t0, t2,
                   times, kinetic_energy, avg_velocity_field, field_samples>>

\* simulation.run(numpy.round(sample_time / integrator.dt).astype(int))
RunSample ==
    /\ nb = "mpcd" /\ pc = "run_sample"
    /\ run(stepsFor(sample_time))
    /\ pc' = "measure2"
    /\ UNCHANGED <<nb, i, loopVars, otherThanLoops>>

\* diffusionEstimate as it would be if it divided by the whole time since t0
diffusionEstimateSinceT0(m2, m1) ==
    RatDivInt(RatSub(m2, m1), 6 * (wait_time + sample_time))

\* D[i] = (msd2 - msd1) / (6 * sample_time)
diffusionEstimate(m2, m1) == RatDivInt(RatSub(m2, m1), 6 * sample_time)

\* snapshot, r2, box, dr, msd2, D[i]; then the next iteration of the for loop
Measure2 ==
    /\ nb = "mpcd" /\ pc = "measure2"
    /\ snapshot' = get_snapshot
    /\ r2' = simPos
    /\ t2' = timestep
    /\ msd2' = meanSquaredDisplacement(simPos, r0)
    /\ D' = [D EXCEPT ![i + 1] =
                diffusionEstimate(meanSquaredDisplacement(simPos, r0), msd1)]
    /\ i' = i + 1
    /\ pc' = IF i + 1 < num_samples THEN "save_r0" ELSE "done"
    /\ UNCHANGED <<nb, otherThanLoops, engineVars, r0, r1, msd1, t0, t1,
                   times, kinetic_energy, avg_velocity_field, field_samples>>

(***************************************************************************)
(* Notebook "pflow": the warm-up and the production loop.                  *)
(***************************************************************************)
num_steps_per_sample == 10
mass == 1

\* simulation.run(num_steps_per_sample) of the warm-up loop
WarmupRun ==
    /\ nb = "pflow" /\ pc = "warmup_run"
    /\ run(num_steps_per_sample)
    /\ pc' = "warmup_sample"
    /\ UNCHANGED <<nb, i, loopVars, otherThanLoops>>

\* 0.5 * snapshot.mpcd.mass * numpy.sum(snapshot.mpcd.velocity[:, 0]**2)
xKineticEnergy(vel) ==
    Rat(mass * SumSeq([p \in Particles |-> vel[p][1] * vel[p][1]]), 2)

\* snapshot, times[i], kinetic_energy[i]; then the next iteration
WarmupSample ==
    /\ nb = "pflow" /\ pc = "warmup_sample"
    /\ snapshot' = get_snapshot
    /\ times' = [times EXCEPT ![i + 1] = (timestep * dt[nb][1]) \div dt[nb][2]]
    /\ kinetic_energy' = [kinetic_energy EXCEPT ![i + 1] = xKineticEnergy(simVel)]
    /\ i' = IF i + 1 < num_samples THEN i + 1 ELSE 0
    /\ pc' = IF i + 1 < num_samples THEN "warmup_run" ELSE "prod_run"
    /\ UNCHANGED <<nb, otherThanLoops, engineVars, r0, r1, r2, msd1, msd2, D, t0, t1, t2,
                   avg_velocity_field, field_samples>>

\* simulation.run(num_steps_per_sample) of the production loop
ProductionRun ==
    /\ nb = "pflow" /\ pc = "prod_run"
    /\ run(num_steps_per_sample)
    /\ pc' = "prod_sample"
    /\ UNCHANGED <<nb, i, loopVars, otherThanLoops>>

FieldAdd(f, g) == [b \in DOMAIN f |-> VecAdd(f[b], g[b])]

\* ProductionSample as it would be with the array zeroed in every iteration
ProductionSampleZeroedEachTime ==
    /\ nb = "pflow" /\ pc = "prod_sample"
    /\ avg_velocity_field' = FieldAdd(ZeroField, fieldVel)
    /\ field_samples' = Append(field_samples, fieldVel)
    /\ i' = i + 1
    /\ pc' = IF i + 1 < num_samples THEN "prod_run" ELSE "prod_divide"
    /\ UNCHANGED <<nb, otherThanLoops, engineVars, snapshot, r0, r1, r2, msd1, msd2, D,
                   t0, t1, t2, times, kinetic_energy>>

\* if i == 0: avg_velocity_field = zeros; avg_velocity_field += velocities
ProductionSample ==
    /\ nb = "pflow" /\ pc = "prod_sample"
    /\ avg_velocity_field' =
          FieldAdd(IF i = 0 THEN ZeroField ELSE avg_velocity_field, fieldVel)
    /\ field_samples' = Append(field_samples, fieldVel)
    /\ i' = i + 1
    /\ pc' = IF i + 1 < num_samples THEN "prod_run" ELSE "prod_divide"
    /\ UNCHANGED <<nb, otherThanLoops, engineVars, snapshot, r0, r1, r2, msd1, msd2, D,
                   t0, t1, t2, times, kinetic_energy>>

\* avg_velocity_field /= num_samples
ProductionDivide ==
    /\ nb = "pflow" /\ pc = "prod_divide"
    /\ avg_velocity_field' =
          [b \in DOMAIN avg_velocity_field |->
              [c \in 1..3 |-> Rat(avg_velocity_field[b][c], num_samples)]]
    /\ pc' = "done"
    /\ UNCHANGED <<nb, otherThanLoops, engineVars, i, snapshot, r0, r1, r2, msd1, msd2, D,
                   t0, t1, t2, times, kinetic_energy, field_samples>>

(***************************************************************************)
(* Notebook "md": the state is created, thermalized and run.               *)
(***************************************************************************)
nsteps == 20000000

\* simulation.state.thermalize_particle_momenta(filter=All(), kT=1.0)
Thermalize ==
    /\ nb = "md" /\ pc = "thermalize"
    /\ simVel' \in VelStates
    /\ pc' = "md_run"
    /\ UNCHANGED <<nb, i, otherThanLoops, timestep, simPos, fieldVel, loopVars>>

\* simulation.run(nsteps, write_at_start=True)
MdRun ==
    /\ nb = "md" /\ pc = "md_run"
    /\ run(nsteps)
    /\ pc' = "done"
    /\ UNCHANGED <<nb, i, loopVars, otherThanLoops>>

(***************************************************************************)
(* The sampling specification: the state right after                       *)
(* create_state_from_snapshot, with the loop variables not yet bound.      *)
(***************************************************************************)
\* no simulation object exists in the session
NoEngine ==
    /\ timestep = 0
    /\ simPos = NoPos
    /\ simVel = NoPos
    /\ fieldVel = ZeroField

\* the velocity cell is not looked at
VelUnbound ==
    /\ mpcd_N = 0 /\ velocity = <<>> /\ snapshot_mpcd_velocity = <<>>

\* block_average is not called
BlockUnbound ==
    /\ ba_data = <<>> /\ num_blocks = 0 /\ traj_length = 0 /\ block_size = 0
    /\ blocks = <<>> /\ block_means = <<>> /\ mean = <<>> /\ std_error = <<>>

\* the movie cell is not looked at
MovieUnbound ==
    /\ im0 = -1 /\ ims = <<>> /\ test_gif = <<>>

\* example.gsd is not written
ExampleUnbound ==
    /\ example_gsd = <<>>

\* render is not called
RenderUnbound ==
    /\ scene_frame = <<>> /\ sphere_position = <<>>
    /\ all_bonds = <<>> /\ bond_distances = <<>> /\ bond_indices = <<>>
    /\ filtered_bonds = <<>> /\ cylinder = [N |-> -1, points |-> <<>>]

\* the loop variables are not bound yet
LoopsUnbound ==
    /\ snapshot = NoSnapshot
    /\ r0 = NoPos /\ r1 = NoPos /\ r2 = NoPos
    /\ msd1 = ZeroRat /\ msd2 = ZeroRat
    /\ D = [k \in 1..num_samples |-> ZeroRat]
    /\ t0 = 0 /\ t1 = 0 /\ t2 = 0
    /\ times = [k \in 1..num_samples |-> 0]
    /\ kinetic_energy = [k \in 1..num_samples |-> ZeroRat]
    /\ avg_velocity_field = ZeroField
    /\ field_samples = <<>>

\* the integrator is not looked at
IntegratorUnset ==
    /\ collision_period = 0 /\ streaming_period = 0 /\ sorter_trigger = 0
    /\ collided = FALSE /\ streamed = FALSE /\ sorted = FALSE

\* the polymer cells are not looked at
PolymerUnbound ==
    /\ os_bound = FALSE /\ raised = ""
    /\ polymer_gsd = [exists |-> FALSE, frames |-> <<>>]
    /\ positions = <<>> /\ frame = <<>>

\* the analysis cells are not looked at
EnergyUnbound ==
    /\ data = <<>> /\ tot_e = <<>> /\ dev = <<>> /\ yval = <<>>
    /\ averages = <<>> /\ printed = <<>>

\* the radius of gyration loop is not looked at
RgUnbound ==
    /\ trajectory_len = 0 /\ topology = <<>> /\ traj_frame = <<>>
    /\ unwrapped_positions = <<>> /\ bonds = <<>> /\ polymer_delimiters = <<>>
    /\ polymers = <<>> /\ ip = 0 /\ com = <<>> /\ Rg2 = <<>>
    /\ rg2 = <<>> /\ rg2_timestep = <<>>

\* the distance cells are not looked at, pair_corr is not called
DistUnbound ==
    /\ x1 = <<>> /\ x0 = <<>> /\ r_dist = <<>> /\ r_dist_pbc = <<>>
    /\ returned = <<>> /\ stdout = <<>>
    /\ A = <<>> /\ B = <<>> /\ number_of_bins = 0 /\ rmax = 0
    /\ bins = <<>> /\ hist_all = <<>> /\ d_B = <<>> /\ hist = <<>> /\ bincenters = <<>>

InitLoops ==
    /\ RenderUnbound
    /\ ExampleUnbound
    /\ MovieUnbound
    /\ BlockUnbound
    /\ VelUnbound
    /\ nb \in {"mpcd", "pflow", "md"}
    /\ IntegratorUnset
    /\ PolymerUnbound
    /\ EnergyUnbound
    /\ DistUnbound
    /\ RgUnbound
    /\ pc = CASE nb = "mpcd" -> "save_r0"
              [] nb = "pflow" -> "warmup_run"
              [] nb = "md" -> "thermalize"
    /\ timestep = 0
    /\ simPos \in PosStates
    /\ simVel \in VelStates
    /\ fieldVel = ZeroField
    /\ i = 0
    /\ LoopsUnbound

NextLoops ==
    \/ SaveInitial \/ RunWait \/ Measure1 \/ RunSample \/ Measure2
    \/ WarmupRun \/ WarmupSample \/ ProductionRun \/ ProductionSample
    \/ ProductionDivide
    \/ Thermalize \/ MdRun

SpecLoops == InitLoops /\ [][NextLoops]_vars

\* the statements that are calls into the engine
EngineCallPcs == {"run_wait", "run_sample", "warmup_run", "prod_run",
                  "thermalize", "md_run"}

\* C1: once the simulation state exists, particle positions and velocities
\* change only in a step that is an engine call (simulation.run,
\* thermalize_particle_momenta); the statements of the sampling loops that
\* read snapshots and compute results leave the particle data as it is.
C1_OnlyEngineWritesParticles ==
    [][(simPos' # simPos \/ simVel' # simVel) => pc \in EngineCallPcs]_vars

\* a diffusion loop has finished; its last snapshot is the engine's state and
\* the particles have moved since the reference positions were read
C1_Witness ==
    /\ nb = "mpcd" /\ pc = "done"
    /\ snapshot.position = simPos /\ snapshot.velocity = simVel
    /\ r2 # r0

\* simulated time covered by a number of steps of the notebook's integrator
elapsed(steps) == RatMulInt(dt[nb], steps)

\* C2: in the diffusion loop both mean-squared displacements of a sample are
\* measured against the positions r0 read at the start of the sample (t0),
\* msd1 at t1 = t0 + wait_time and msd2 at t2 = t1 + sample_time, and the
\* stored estimate is D[i] = (msd2 - msd1) / (6 (t2 - t1)).
C2_DiffusionEstimate ==
    nb = "mpcd" =>
      /\ pc = "run_wait" => r0 = simPos /\ t0 = timestep
      /\ pc = "run_sample" =>
            /\ r1 = simPos /\ t1 = timestep
            /\ RatEq(elapsed(t1 - t0), Rat(wait_time, 1))
            /\ RatEq(msd1, meanSquaredDisplacement(r1, r0))
      /\ (i > 0 /\ pc \in {"save_r0", "done"}) =>
            /\ r2 = simPos /\ t2 = timestep
            /\ RatEq(elapsed(t1 - t0), Rat(wait_time, 1))
            /\ RatEq(elapsed(t2 - t1), Rat(sample_time, 1))
            /\ RatEq(msd1, meanSquaredDisplacement(r1, r0))
            /\ RatEq(msd2, meanSquaredDisplacement(r2, r0))
            /\ LET dT == elapsed(t2 - t1)
                   dM == RatSub(meanSquaredDisplacement(r2, r0),
                                meanSquaredDisplacement(r1, r0))
               IN  \* D[i] * 6 * (t2 - t1) = msd2 - msd1
                   RatEq(<<D[i][1] * 6 * dT[1], D[i][2] * dT[2]>>, dM)

\* a sample whose two displacements differ has been stored
C2_Witness ==
    /\ nb = "mpcd" /\ pc = "done" /\ i = num_samples
    /\ ~RatEq(msd1, msd2)
    /\ D[i][1] # 0


\* C13: in each sample of the diffusion loop the simulation is run forward
\* 1 time unit before the first mean-squared displacement is measured and
\* another 1 time unit before the second.
C13_OneTimeUnitPerRun ==
    nb = "mpcd" =>
      /\ pc = "run_sample" => RatEq(elapsed(timestep - t0), Rat(1, 1))
      /\ (i > 0 /\ pc \in {"save_r0", "done"}) =>
            /\ RatEq(elapsed(t1 - t0), Rat(1, 1))
            /\ RatEq(elapsed(t2 - t1), Rat(1, 1))

\* the sum of component c of bin b over the fields of the sequence fs
RECURSIVE fieldTotal(_, _, _)
fieldTotal(fs, b, c) ==
    IF fs = <<>> THEN 0 ELSE Head(fs)[b][c] + fieldTotal(Tail(fs), b, c)

\* C11: in the production loop each of the num_samples fields read after a
\* block of num_steps_per_sample steps is added exactly once to an array that
\* starts from zero in the first iteration, and after the loop the sum is
\* divided once by num_samples: avg_velocity_field is the arithmetic mean of
\* the sampled fields.
C11_MeanOfSampledFields ==
    nb = "pflow" =>
      /\ pc = "prod_sample" =>
            /\ Len(field_samples) = i
            /\ timestep = (num_samples + i + 1) * num_steps_per_sample
      /\ (pc \in {"prod_run", "prod_sample"} /\ i > 0) \/ pc = "prod_divide" =>
            /\ Len(field_samples) = i
            /\ \A b \in 1..2, c \in 1..3 :
                  avg_velocity_field[b][c] = fieldTotal(field_samples, b, c)
      /\ pc = "done" =>
            /\ Len(field_samples) = num_samples
            /\ \A b \in 1..2, c \in 1..3 :
                  RatEq(avg_velocity_field[b][c],
                        Rat(fieldTotal(field_samples, b, c), num_samples))

\* the loop is over and the samples differed from one another
C11_Witness ==
    /\ nb = "pflow" /\ pc = "done"
    /\ Len(field_samples) = num_samples
    /\ field_samples[1] # field_samples[2]
    /\ avg_velocity_field[1][1] = Rat(4, num_samples)

(***************************************************************************)
(* Notebook "mpcd": the configuration of the MPCD integrator, and the      *)
(* engine's timesteps under that configuration.                            *)
(***************************************************************************)
\* StochasticRotationDynamics(period=1, ...)
srd_period == 1
\* ParticleSorter(trigger=20 * integrator.collision_method.period)
sorts_every == 20

\* integrator.collision_method = StochasticRotationDynamics(period=1, ...)
ConfigureCollision ==
    /\ nb = "mpcd" /\ pc = "cfg_collision"
    /\ collision_period' = srd_period
    /\ pc' = "cfg_streaming"
    /\ UNCHANGED <<nb, i, engineVars, otherThanIntegrator, streaming_period,
                   sorter_trigger, collided, streamed, sorted>>

\* ConfigureStreaming as it would be with a streaming period of its own
ConfigureStreamingOwnPeriod ==
    /\ nb = "mpcd" /\ pc = "cfg_streaming"
    /\ streaming_period' = 2
    /\ pc' = "cfg_sorter"
    /\ UNCHANGED <<nb, i, engineVars, otherThanIntegrator, collision_period,
                   sorter_trigger, collided, streamed, sorted>>

\* integrator.streaming_method = Bulk(period=integrator.collision_method.period)
ConfigureStreaming ==
    /\ nb = "mpcd" /\ pc = "cfg_streaming"
    /\ streaming_period' = collision_period
    /\ pc' = "cfg_sorter"
    /\ UNCHANGED <<nb, i, engineVars, otherThanIntegrator, collision_period,
                   sorter_trigger, collided, streamed, sorted>>

\* integrator.mpcd_particle_sorter = ParticleSorter(trigger=20 * period)
ConfigureSorter ==
    /\ nb = "mpcd" /\ pc = "cfg_sorter"
    /\ sorter_trigger' = sorts_every * collision_period
    /\ pc' = "stepping"
    /\ UNCHANGED <<nb, i, engineVars, otherThanIntegrator, collision_period,
                   streaming_period, collided, streamed, sorted>>

\* a periodic trigger of the engine
triggers(period, step) == step % period = 0

\* one timestep of the engine: the sorter, the streaming and the collision each
\* act when their period divides the timestep
Step ==
    /\ nb = "mpcd" /\ pc = "stepping"
    /\ timestep < MaxTimestep
    /\ sorted' = triggers(sorter_trigger, timestep)
    /\ streamed' = triggers(streaming_period, timestep)
    /\ collided' = triggers(collision_period, timestep)
    /\ IF triggers(streaming_period, timestep)
          THEN simPos' \in PosStates ELSE simPos' = simPos
    /\ IF triggers(collision_period, timestep)
          THEN simVel' \in VelStates ELSE simVel' = simVel
    /\ timestep' = timestep + 1
    /\ UNCHANGED <<nb, pc, i, fieldVel, otherThanIntegrator, collision_period,
                   streaming_period, sorter_trigger>>

InitIntegrator ==
    /\ RenderUnbound
    /\ ExampleUnbound
    /\ MovieUnbound
    /\ BlockUnbound
    /\ VelUnbound
    /\ nb = "mpcd" /\ pc = "cfg_collision"
    /\ timestep = 0
    /\ simPos \in PosStates
    /\ simVel \in VelStates
    /\ fieldVel = ZeroField
    /\ i = 0
    /\ LoopsUnbound
    /\ IntegratorUnset
    /\ PolymerUnbound
    /\ EnergyUnbound
    /\ DistUnbound
    /\ RgUnbound

NextIntegrator ==
    ConfigureCollision \/ ConfigureStreaming \/ ConfigureSorter \/ Step

SpecIntegrator == InitIntegrator /\ [][NextIntegrator]_vars

\* C9: streaming is configured with the period of the SRD collision (1: every
\* timestep) and the sorter with a trigger of 20 collision periods; so at every
\* timestep streaming happens exactly when a collision happens, and a timestep
\* at which the particles are sorted is a collision timestep.
C9_StreamingWithCollision ==
    (nb = "mpcd" /\ pc = "stepping") =>
      /\ collision_period = 1
      /\ streaming_period = collision_period
      /\ sorter_trigger = 20 * collision_period
      /\ timestep > 0 =>
            /\ streamed <=> collided
            /\ sorted => collided
            /\ sorted <=> (timestep - 1) % 20 = 0

\* the particles were sorted, streamed and collided at timestep 20
C9_Witness ==
    /\ nb = "mpcd" /\ pc = "stepping"
    /\ timestep = 21 /\ sorted /\ streamed /\ collided

(***************************************************************************)
(* Notebooks "md" (MD template) and "langevin": building the polymer and   *)
(* writing polymer.gsd.  A cell that raises ends there; the cells after it *)
(* can still be executed.                                                  *)
(***************************************************************************)
polymerL == 100
N == 30
bond == 1

\* the first cell: import gsd.hoomd, hoomd, matplotlib, numpy as np
ImportPackages ==
    /\ nb \in {"md", "langevin"} /\ pc = "imports"
    /\ pc' = IF nb = "md" THEN "define_render" ELSE "cleanup"
    /\ UNCHANGED <<nb, i, otherThanPolymer, polymerVars>>

\* the cell defining render() of the MD template: import math, warnings, os
DefineRender ==
    /\ nb = "md" /\ pc = "define_render"
    /\ os_bound' = TRUE
    /\ pc' = "cleanup"
    /\ UNCHANGED <<nb, i, otherThanPolymer, raised, polymer_gsd, positions, frame>>

\* file = os.path.join(os.getcwd(), "polymer.gsd")
\* if os.path.exists(file): os.remove(file)
CleanUp ==
    /\ nb \in {"md", "langevin"} /\ pc = "cleanup"
    /\ IF os_bound
          THEN /\ polymer_gsd' = [exists |-> FALSE, frames |-> <<>>]
               /\ raised' = ""
          ELSE /\ raised' = "NameError"
               /\ UNCHANGED polymer_gsd
    /\ pc' = "build"
    /\ UNCHANGED <<nb, i, otherThanPolymer, os_bound, positions, frame>>

\* L = 100; N = 30; bond = 1.0; positions = np.zeros((N, 3), dtype=float)
StartBuild ==
    /\ nb \in {"md", "langevin"} /\ pc = "build"
    /\ positions' = [k \in 0..(N - 1) |-> <<Rat(0, 1), Rat(0, 1), Rat(0, 1)>>]
    /\ i' = 0
    /\ pc' = "place"
    /\ UNCHANGED <<nb, otherThanPolymer, os_bound, raised, polymer_gsd, frame>>

\* beadX as it would be if the chain started at -N * bond / 2
beadXOffCentre(k) == Rat(2 * k * bond - N * bond, 2)

\* i * bond - (((N-1) * bond ) * 0.5)
beadX(k) == Rat(2 * k * bond - (N - 1) * bond, 2)

\* for i in range(N): positions[i, 0] = ...
PlaceBead ==
    /\ nb \in {"md", "langevin"} /\ pc = "place"
    /\ i < N
    /\ positions' = [positions EXCEPT ![i][1] = beadX(i)]
    /\ i' = i + 1
    /\ UNCHANGED <<nb, pc, otherThanPolymer, os_bound, raised, polymer_gsd, frame>>

\* bondGroup as it would be if the second column repeated the first
bondGroupSelf == [k \in 0..(N - 2) |-> <<k, k>>]

\* np.column_stack((range(0, N - 1), range(1, N)))
bondGroup == [k \in 0..(N - 2) |-> <<k, k + 1>>]

\* frame = gsd.hoomd.Frame(); box, beads and bonds
MakeFrame ==
    /\ nb \in {"md", "langevin"} /\ pc = "place"
    /\ i = N
    /\ frame' = [box |-> <<polymerL, polymerL, polymerL, 0, 0, 0>>,
                 particles_N |-> N,
                 particles_position |-> positions,
                 particles_typeid |-> [k \in 0..(N - 1) |-> 0],
                 particles_types |-> <<"A">>,
                 particles_mass |-> [k \in 0..(N - 1) |-> 1],
                 bonds_N |-> N - 1,
                 bonds_typeid |-> [k \in 0..(N - 2) |-> 0],
                 bonds_types |-> <<"A">>,
                 bonds_group |-> bondGroup]
    /\ pc' = "write"
    /\ UNCHANGED <<nb, i, otherThanPolymer, os_bound, raised, polymer_gsd, positions>>

\* with gsd.hoomd.open("polymer.gsd", "w") as f: f.append(frame)
WriteGsd ==
    /\ nb \in {"md", "langevin"} /\ pc = "write"
    /\ polymer_gsd' = [exists |-> TRUE, frames |-> <<frame>>]
    /\ pc' = "done"
    /\ UNCHANGED <<nb, i, otherThanPolymer, os_bound, raised, positions, frame>>

\* a frame an earlier session left in polymer.gsd
OldFrame == [box |-> <<polymerL, polymerL, polymerL, 0, 0, 0>>, particles_N |-> 0]

InitPolymer ==
    /\ RenderUnbound
    /\ ExampleUnbound
    /\ MovieUnbound
    /\ BlockUnbound
    /\ VelUnbound
    /\ nb \in {"md", "langevin"} /\ pc = "imports"
    /\ i = 0
    /\ NoEngine /\ LoopsUnbound /\ IntegratorUnset /\ EnergyUnbound
    /\ DistUnbound /\ RgUnbound
    /\ os_bound = FALSE /\ raised = ""
    /\ positions = <<>> /\ frame = <<>>
    /\ \E n \in 0..MaxOldFrames :
          polymer_gsd \in {[exists |-> FALSE, frames |-> <<>>],
                           [exists |-> TRUE, frames |-> [k \in 1..n |-> OldFrame]]}

NextPolymer ==
    \/ ImportPackages \/ DefineRender \/ CleanUp
    \/ StartBuild \/ PlaceBead \/ MakeFrame \/ WriteGsd

SpecPolymer == InitPolymer /\ [][NextPolymer]_vars

(***************************************************************************)
(* Notebook "md": the energy conservation analysis cell.                   *)
(***************************************************************************)
\* dt = [0.001, 0.005, 0.009]
dts == <<Rat(1, 1000), Rat(5, 1000), Rat(9, 1000)>>

\* the (kinetic_energy, potential_energy) pairs a logged row can hold
Energies == {<<3, -2>>, <<3, 1>>}

\* the thermo-{t}.dat tables: rows written every 1_000 steps
Tables ==
    UNION {{[k \in 1..n |-> [timestep |-> (k - 1) * 1000,
                             kinetic_energy |-> f[k][1],
                             potential_energy |-> f[k][2]]] :
                f \in [1..n -> Energies]} : n \in 1..MaxRows}

RECURSIVE RatSum(_)
RatSum(s) == IF s = <<>> THEN Rat(0, 1) ELSE RatNorm(RatAdd(Head(s), RatSum(Tail(s))))

\* np.mean of a sequence of rationals
RatMean(s) == RatNorm(RatDivInt(RatSum(s), Len(s)))

\* averages = np.zeros((len(dt)))
StartAnalysis ==
    /\ nb = "md" /\ pc = "analysis"
    /\ averages' = [k \in 1..Len(dts) |-> Rat(0, 1)]
    /\ i' = 0
    /\ pc' = "load"
    /\ UNCHANGED <<nb, otherThanEnergy, data, tot_e, dev, yval, printed>>

\* from loaded data, sum PE and KE
totalEnergy(d) ==
    [k \in 1..Len(d) |-> Rat(d[k].potential_energy + d[k].kinetic_energy, 1)]

\* data = np.loadtxt(f"thermo-{t}.dat", skiprows=1); tot_e = ...
LoadData ==
    /\ nb = "md" /\ pc = "load"
    /\ i < Len(dts)
    /\ \E d \in Tables :
          /\ data' = d
          /\ tot_e' = totalEnergy(d)
    /\ pc' = "dev"
    /\ UNCHANGED <<nb, i, otherThanEnergy, dev, yval, averages, printed>>

\* dev = tot_e - np.mean(tot_e)
Deviation ==
    /\ nb = "md" /\ pc = "dev"
    /\ dev' = [k \in 1..Len(tot_e) |-> RatNorm(RatSub(tot_e[k], RatMean(tot_e)))]
    /\ pc' = "yval"
    /\ UNCHANGED <<nb, i, otherThanEnergy, data, tot_e, yval, averages, printed>>

\* yval = np.sqrt(dev**2) / np.mean(tot_e): the square root of each squared
\* entry is its absolute value
Yval ==
    /\ nb = "md" /\ pc = "yval"
    /\ yval' = [k \in 1..Len(dev) |-> RatDiv(RatAbs(dev[k]), RatMean(tot_e))]
    /\ pc' = "average"
    /\ UNCHANGED <<nb, i, otherThanEnergy, data, tot_e, dev, averages, printed>>

\* averages[i] = np.mean(yval)
Average ==
    /\ nb = "md" /\ pc = "average"
    /\ averages' = [averages EXCEPT ![i + 1] = RatMean(yval)]
    /\ i' = i + 1
    /\ pc' = "load"
    /\ UNCHANGED <<nb, otherThanEnergy, data, tot_e, dev, yval, printed>>

\* the first loop is over: matplotlib.pyplot.show()
Show ==
    /\ nb = "md" /\ pc = "load"
    /\ i = Len(dts)
    /\ i' = 0
    /\ pc' = "print"
    /\ UNCHANGED <<nb, otherThanEnergy, energyVars>>

\* f"{x:.4f}", in units of 10^-4
format4f(x) ==
    LET a == RatNorm(x)
        m == RoundHalfEven(Abs(a[1]) * 10000, a[2])
    IN  IF a[1] < 0 THEN -m ELSE m

\* print(f"The mean error using ... is {averages[i]:.4f}.")
PrintLine ==
    /\ nb = "md" /\ pc = "print"
    /\ i < Len(dts)
    /\ printed' = Append(printed, format4f(averages[i + 1]))
    /\ i' = i + 1
    /\ pc' = IF i + 1 = Len(dts) THEN "done" ELSE "print"
    /\ UNCHANGED <<nb, otherThanEnergy, data, tot_e, dev, yval, averages>>

InitEnergy ==
    /\ RenderUnbound
    /\ ExampleUnbound
    /\ MovieUnbound
    /\ BlockUnbound
    /\ VelUnbound
    /\ nb = "md" /\ pc = "analysis"
    /\ i = 0
    /\ NoEngine /\ LoopsUnbound /\ IntegratorUnset /\ PolymerUnbound
    /\ EnergyUnbound /\ DistUnbound /\ RgUnbound

NextEnergy ==
    \/ StartAnalysis \/ LoadData \/ Deviation \/ Yval \/ Average
    \/ Show \/ PrintLine

SpecEnergy == InitEnergy /\ [][NextEnergy]_vars

\* the mean of the squared deviations of e from its mean, over the squared mean
rmsd2OverMean2(e) ==
    LET m == RatMean(e)
        d2 == [k \in 1..Len(e) |-> RatMul(RatSub(e[k], m), RatSub(e[k], m))]
    IN  RatDiv(RatMean(d2), RatMul(m, m))

\* C5: the measure stored for a time step size is the root-mean-squared
\* deviation of the total energy from its mean, over the mean energy (its
\* square is the mean squared deviation over the squared mean, its sign
\* that of the mean), and that number is what is printed.
C5_RmsdOverMean ==
    /\ (pc = "load" /\ i > 0) =>
          /\ RatEq(RatMul(averages[i], averages[i]), rmsd2OverMean2(tot_e))
          /\ (averages[i][1] >= 0) = (RatMean(tot_e)[1] >= 0)
    /\ pc = "done" =>
          \A k \in 1..Len(dts) : printed[k] = format4f(averages[k])

(***************************************************************************)
(* Notebook "pbc": dist, dist_pbc and their test cell.  A distance is held *)
(* exactly, as its square; printing renders it with three decimals.        *)
(***************************************************************************)
\* the largest r in lo..hi with r * r <= x
RECURSIVE isqrtBetween(_, _, _)
isqrtBetween(x, lo, hi) ==
    IF lo >= hi THEN lo
    ELSE LET mid == (lo + hi + 1) \div 2
         IN  IF mid * mid <= x THEN isqrtBetween(x, mid, hi)
             ELSE isqrtBetween(x, lo, mid - 1)

\* the square root of d2 as print shows it, in units of 10^-3 (d2 < 536)
shown(d2) == (isqrtBetween(4000000 * d2, 0, 46340) + 1) \div 2

\* row k of x when x is broadcast to n rows
rowOf(x, k) == IF Len(x) = 1 THEN x[1] ELSE x[k]
rowsOf(a, b) == IF Len(a) > Len(b) THEN Len(a) ELSE Len(b)

\* numpy.round(d / b) for an integer d and b > 0
roundDiv(d, b) == IF d >= 0 THEN RoundHalfEven(d, b) ELSE -RoundHalfEven(-d, b)

\* dist(x1, x0): the Euclidean distance of each pair of rows
dist(a, b) == [k \in 1..rowsOf(a, b) |-> SumSq(VecSub(rowOf(a, k), rowOf(b, k)))]

\* the separation d folded into the box along one axis
fold(d, b) == d - b * roundDiv(d, b)

\* dist_pbc(x1, x0, Box): the distance of each pair of rows after folding
\* every component of the separation
dist_pbc(a, b, box) ==
    [k \in 1..rowsOf(a, b) |->
        LET d == VecSub(rowOf(a, k), rowOf(b, k))
        IN  SumSq(<<fold(d[1], box[1]), fold(d[2], box[2]), fold(d[3], box[3])>>)]

\* Box as it would be with edges of 12
BoxWide == <<12, 12, 12>>

Box == <<10, 10, 10>>
points_A == << <<2, 3, 1>> >>
points_B == << <<0, 0, 0>>, <<-1, -4, 0>>, <<-4, 2, 3>>, <<3, 5, -4>> >>
points_C == << <<3, 0, -2>>, <<2, -2, 4>>, <<2, 0, 0>>, <<0, 0, 5>> >>
points_D == << <<-1, 0, 0>> >>

\* the coordinates calls outside the test cell are made with
Coordinates == {-4, 0, 3}
Points == Coordinates \X Coordinates \X Coordinates

\* dist(x1, x0) for one pair of points
CallDist ==
    /\ nb = "pbc" /\ pc = "call_dist"
    /\ r_dist' = dist(x1, x0)
    /\ pc' = "call_dist_pbc"
    /\ UNCHANGED <<nb, i, otherThanDist, x1, x0, r_dist_pbc, returned, stdout>>

\* dist_pbc(x1, x0, Box) for the same pair
CallDistPbc ==
    /\ nb = "pbc" /\ pc = "call_dist_pbc"
    /\ r_dist_pbc' = dist_pbc(x1, x0, Box)
    /\ i' = 0
    /\ pc' = "test"
    /\ UNCHANGED <<nb, otherThanDist, x1, x0, r_dist, returned, stdout>>

\* the six calls of the test cell
testCalls ==
    << dist_pbc(points_A, points_B, Box),
       dist(points_A, points_B),
       dist_pbc(points_B, points_C, Box),
       dist(points_B, points_C),
       dist_pbc(points_A, points_A, Box),
       dist_pbc(<<points_B[1]>>, points_D, Box) >>

\* print(...) of the next call
PrintTest ==
    /\ nb = "pbc" /\ pc = "test"
    /\ i < Len(testCalls)
    /\ LET r == testCalls[i + 1]
       IN  /\ returned' = Append(returned, r)
           /\ stdout' = Append(stdout, [k \in 1..Len(r) |-> shown(r[k])])
    /\ i' = i + 1
    /\ pc' = IF i + 1 = Len(testCalls) THEN "done" ELSE "test"
    /\ UNCHANGED <<nb, otherThanDist, x1, x0, r_dist, r_dist_pbc>>

InitDist ==
    /\ RenderUnbound
    /\ ExampleUnbound
    /\ MovieUnbound
    /\ BlockUnbound
    /\ VelUnbound
    /\ nb = "pbc" /\ pc = "call_dist"
    /\ i = 0
    /\ NoEngine /\ LoopsUnbound /\ IntegratorUnset /\ PolymerUnbound
    /\ EnergyUnbound /\ RgUnbound
    /\ x1 \in {<<q>> : q \in Points} /\ x0 \in {<<q>> : q \in Points}
    /\ r_dist = <<>> /\ r_dist_pbc = <<>> /\ returned = <<>> /\ stdout = <<>>
    /\ A = <<>> /\ B = <<>> /\ number_of_bins = 0 /\ rmax = 0
    /\ bins = <<>> /\ hist_all = <<>> /\ d_B = <<>> /\ hist = <<>> /\ bincenters = <<>>

NextDist == CallDist \/ CallDistPbc \/ PrintTest

SpecDist == InitDist /\ [][NextDist]_vars

\* the expected output of the test cell, to three decimals
expectedOutput ==
    << <<3742, 4359, 4583, 5477>>,
       <<3742, 7681, 6403, 5477>>,
       <<3606, 5385, 5385, 5916>>,
       <<3606, 5385, 7000, 10724>>,
       <<0>>,
       <<1000>> >>

\* the squared length of the shortest of the separations a - b + n * box
minImage2(a, b, box) ==
    LET shifts == {-2, -1, 0, 1, 2}
        all == {SumSq(<<a[1] - b[1] + n[1] * box[1],
                        a[2] - b[2] + n[2] * box[2],
                        a[3] - b[3] + n[3] * box[3]>>) :
                    n \in shifts \X shifts \X shifts}
    IN  CHOOSE m \in all : \A o \in all : m <= o

\* C3: dist returns the Euclidean distance of each pair and dist_pbc the
\* minimum-image distance; in the test cell with Box = (10,10,10) the squared
\* results are 14, 19, 21, 30 (dist_pbc) and 14, 59, 41, 30 (dist) for A vs B,
\* 13, 29, 29, 35 (dist_pbc) and 13, 29, 49, 115 (dist) for B vs C, 0 for a
\* point with itself and 1 for (0,0,0) and (-1,0,0), printed as the expected
\* output says.
C3_DistAndMinimumImage ==
    /\ pc \in {"test", "done"} =>
          /\ r_dist = <<(x1[1][1] - x0[1][1]) * (x1[1][1] - x0[1][1])
                        + (x1[1][2] - x0[1][2]) * (x1[1][2] - x0[1][2])
                        + (x1[1][3] - x0[1][3]) * (x1[1][3] - x0[1][3])>>
          /\ r_dist_pbc = <<minImage2(x1[1], x0[1], Box)>>
          /\ r_dist_pbc[1] <= r_dist[1]
    /\ \A k \in 1..Len(returned) :
          /\ returned[k] = << <<14, 19, 21, 30>>, <<14, 59, 41, 30>>,
                              <<13, 29, 29, 35>>, <<13, 29, 49, 115>>,
                              <<0>>, <<1>> >>[k]
          /\ stdout[k] = expectedOutput[k]
    /\ pc = "done" => Len(returned) = 6 /\ Len(stdout) = 6
    /\ \A k \in 1..4 :
          /\ dist_pbc(points_A, points_B, Box)[k] = minImage2(points_A[1], points_B[k], Box)
          /\ dist_pbc(points_B, points_C, Box)[k] = minImage2(points_B[k], points_C[k], Box)

C3_Witness ==
    /\ pc = "done"
    /\ stdout[4] = <<3606, 5385, 7000, 10724>>
    /\ x1 = << <<3, 0, 0>> >> /\ x0 = << <<-4, 0, 0>> >>
    /\ r_dist = <<49>> /\ r_dist_pbc = <<9>>

(***************************************************************************)
(* Notebook "pbc": pair_corr(A, B, Box, number_of_bins, rmax) up to the    *)
(* statements that normalise the histogram.  Distances are held as their   *)
(* squares, bin edges as rationals.                                        *)
(***************************************************************************)
\* numpy.linspace(0, stop, num): num evenly spaced edges from 0 to stop
linspace(stop, num) == [k \in 1..num |-> Rat((k - 1) * stop, num - 1)]

\* whether the distance with square d2 falls into bin k of the edges e:
\* e[k] <= r < e[k+1], the last bin also holding r = e[k+1]
inBin(d2, e, k) ==
    /\ e[k][1] * e[k][1] <= d2 * e[k][2] * e[k][2]
    /\ \/ d2 * e[k + 1][2] * e[k + 1][2] < e[k + 1][1] * e[k + 1][1]
       \/ /\ k = Len(e) - 1
          /\ d2 * e[k + 1][2] * e[k + 1][2] = e[k + 1][1] * e[k + 1][1]

\* numpy.histogram(values, e)[0]
histogram(values, e) ==
    [k \in 1..(Len(e) - 1) |->
        Cardinality({m \in 1..Len(values) : inBin(values[m], e, k)})]

\* the positions pair_corr is called with
Atoms == {<<0, 0, 0>>, <<3, 0, 0>>, <<-4, 0, 0>>}
AtomArrays == UNION {[1..n -> Atoms] : n \in 1..MaxAtoms}

\* bins = ...; hist_all, bin_edges_all = numpy.histogram(0, bins)
DefineBins ==
    /\ nb = "pbc" /\ pc = "pair_corr"
    /\ bins' = linspace(rmax, number_of_bins + 1)
    /\ hist_all' = histogram(<<0>>, bins')
    /\ i' = 0
    /\ pc' = "for_particle"
    /\ UNCHANGED <<nb, otherThanPairCorr, A, B, number_of_bins, rmax, d_B, hist, bincenters>>

\* for particle in A: d = ...; hist = numpy.histogram(...); hist_all += hist
AddParticle ==
    /\ nb = "pbc" /\ pc = "for_particle"
    /\ i < Len(A)
    /\ d_B' = dist_pbc(<<A[i + 1]>>, B, Box)
    /\ hist' = histogram(d_B', bins)
    /\ hist_all' = [k \in 1..Len(hist_all) |-> hist_all[k] + hist'[k]]
    /\ i' = i + 1
    /\ UNCHANGED <<nb, pc, otherThanPairCorr, A, B, number_of_bins, rmax, bins, bincenters>>

\* bincenters = ..: the midpoints of the bin edges
BinCenters ==
    /\ nb = "pbc" /\ pc = "for_particle"
    /\ i = Len(A)
    /\ bincenters' = [k \in 1..(Len(bins) - 1) |->
                          RatNorm(RatDivInt(RatAdd(bins[k], bins[k + 1]), 2))]
    /\ pc' = "normalize"
    /\ UNCHANGED <<nb, i, otherThanPairCorr, A, B, number_of_bins, rmax, bins,
                   hist_all, d_B, hist>>

InitPairCorr ==
    /\ RenderUnbound
    /\ ExampleUnbound
    /\ MovieUnbound
    /\ BlockUnbound
    /\ VelUnbound
    /\ nb = "pbc" /\ pc = "pair_corr"
    /\ i = 0
    /\ NoEngine /\ LoopsUnbound /\ IntegratorUnset /\ PolymerUnbound
    /\ EnergyUnbound /\ RgUnbound
    /\ x1 = <<>> /\ x0 = <<>> /\ r_dist = <<>> /\ r_dist_pbc = <<>>
    /\ returned = <<>> /\ stdout = <<>>
    /\ A \in AtomArrays /\ B \in AtomArrays
    /\ number_of_bins \in 1..MaxBins
    /\ rmax \in {3, 4}
    /\ bins = <<>> /\ hist_all = <<>> /\ d_B = <<>> /\ hist = <<>> /\ bincenters = <<>>

NextPairCorr == DefineBins \/ AddParticle \/ BinCenters

SpecPairCorr == InitPairCorr /\ [][NextPairCorr]_vars

\* the number of pairs (a, b), a among the first n rows of A and b in B,
\* whose minimum-image distance lies in bin k of number_of_bins equal bins
\* over [0, rmax]
pairsInBin(n, k) ==
    Cardinality({q \in (1..n) \X (1..Len(B)) :
        LET d2 == minImage2(A[q[1]], B[q[2]], Box)
        IN  /\ ((k - 1) * rmax) * ((k - 1) * rmax) <= d2 * number_of_bins * number_of_bins
            /\ \/ d2 * number_of_bins * number_of_bins < (k * rmax) * (k * rmax)
               \/ /\ k = number_of_bins
                  /\ d2 * number_of_bins * number_of_bins = (k * rmax) * (k * rmax)})

\* C4: pair_corr starts from an empty histogram of number_of_bins bins and
\* adds, for every particle of A, the histogram of its distances to all of B
\* over the same edges: before normalisation each bin holds the number of
\* (a, b) pairs whose distance falls in it; one bin centre per bin.
C4_HistogramCountsPairs ==
    /\ pc \in {"for_particle", "normalize"} =>
          /\ Len(hist_all) = number_of_bins
          /\ \A k \in 1..number_of_bins : hist_all[k] = pairsInBin(i, k)
    /\ pc = "normalize" =>
          /\ i = Len(A)
          /\ Len(bincenters) = number_of_bins

(***************************************************************************)
(* Notebook "pbc": the radius of gyration loop over a trajectory.  Frames  *)
(* are read from the file one by one; every frame holds the same bonds.    *)
(* Particle j of the file is entry j + 1 of a position array.              *)
(***************************************************************************)
\* the edge of the cubic box of the trajectory
rgBox == <<4, 4, 4>>

\* the bond arrays a trajectory of linear chains can hold
Topologies ==
    { << <<0, 1>>, <<2, 3>> >>,
      << <<0, 1>>, <<1, 2>>, <<2, 3>> >>,
      << <<0, 1>>, <<1, 2>>, <<3, 4>> >> }

\* the number of particles of a trajectory with bonds g
particlesOf(g) == g[Len(g)][2] + 1

\* wrapped positions of a frame
wrappedPositions == << <<-1, 0, 1>>, <<1, 1, 0>>, <<0, -1, -1>>, <<1, -1, 0>>, <<-1, 1, 1>> >>

\* image flags of a frame of n particles: the particles after the first cut
\* ones have crossed the box boundary
imagesCutAt(n, cut) == [j \in 1..n |-> IF j > cut THEN <<1, 0, -1>> ELSE <<0, 0, 0>>]

\* the steps between two frames of the file
StepIncrements == {0, 10}

\* rg2 = []; timestep = []
StartRg ==
    /\ nb = "pbc" /\ pc = "rg_cell"
    /\ rg2' = <<>> /\ rg2_timestep' = <<>>
    /\ i' = 0
    /\ pc' = "for_frame"
    /\ UNCHANGED <<nb, otherThanRg, trajectory_len, topology, traj_frame,
                   unwrapped_positions, bonds, polymer_delimiters, polymers, ip, com, Rg2>>

\* a coordinate x brought back into the box [-len/2, len/2) of an axis
wrapInto(x, len) == x - len * ((2 * x + len) \div (2 * len))

\* frame.particles.position - frame.particles.image * frame.configuration.box[0:3]
unwrapAgainstImage(fr) ==
    [j \in 1..Len(fr.position) |->
        <<fr.position[j][1] - fr.image[j][1] * fr.box[1],
          fr.position[j][2] - fr.image[j][2] * fr.box[2],
          fr.position[j][3] - fr.image[j][3] * fr.box[3]>>]

\* frame.particles.position + frame.particles.image * frame.configuration.box[0:3]
unwrap(fr) ==
    [j \in 1..Len(fr.position) |->
        <<fr.position[j][1] + fr.image[j][1] * fr.box[1],
          fr.position[j][2] + fr.image[j][2] * fr.box[2],
          fr.position[j][3] + fr.image[j][3] * fr.box[3]>>]

\* the first indices of the bonds from row k on that do not continue the
\* bond before them: bonds[k - 1][2] - bonds[k][1] is not zero
RECURSIVE breaksFrom(_, _)
breaksFrom(g, k) ==
    IF k > Len(g) THEN <<>>
    ELSE IF g[k - 1][2] - g[k][1] # 0 THEN <<g[k][1]>> \o breaksFrom(g, k + 1)
    ELSE breaksFrom(g, k + 1)

\* numpy.split(arr, cuts): arr[0:c1], arr[c1:c2], ..., arr[ck:]
RECURSIVE split(_, _, _)
split(arr, cuts, from) ==
    IF cuts = <<>> THEN <<SubSeq(arr, from + 1, Len(arr))>>
    ELSE <<SubSeq(arr, from + 1, Head(cuts))>> \o split(arr, Tail(cuts), Head(cuts))

\* for frame in trajectory: unwrapped_positions, bonds, polymer_delimiters, polymers
ReadFrame ==
    /\ nb = "pbc" /\ pc = "for_frame"
    /\ i < trajectory_len
    /\ \E cut \in 0..particlesOf(topology), inc \in StepIncrements :
          LET img == imagesCutAt(particlesOf(topology), cut)
              fr == [step |-> IF i = 0 THEN inc ELSE traj_frame.step + inc,
                     box |-> rgBox,
                     position |-> SubSeq(wrappedPositions, 1, particlesOf(topology)),
                     image |-> img,
                     group |-> topology]
          IN  /\ traj_frame' = fr
              /\ unwrapped_positions' = unwrap(fr)
              /\ bonds' = fr.group
              /\ polymer_delimiters' = breaksFrom(fr.group, 2)
              /\ polymers' = split(unwrap(fr), breaksFrom(fr.group, 2), 0)
    /\ i' = i + 1
    /\ ip' = 0
    /\ pc' = "for_p"
    /\ UNCHANGED <<nb, otherThanRg, trajectory_len, topology, com, Rg2, rg2, rg2_timestep>>

\* numpy.mean(p, axis=0)
centreOfMass(q) ==
    [a \in 1..3 |-> RatMean([j \in 1..Len(q) |-> Rat(q[j][a], 1)])]

\* numpy.average(numpy.sum((p - com)**2, axis=1))
gyration2(q, c) ==
    RatMean([j \in 1..Len(q) |->
        RatSum([a \in 1..3 |->
            RatMul(RatSub(Rat(q[j][a], 1), c[a]), RatSub(Rat(q[j][a], 1), c[a]))])])

\* for p in polymers: com = ...; Rg2 = ...
ComputeRg2 ==
    /\ nb = "pbc" /\ pc = "for_p"
    /\ ip < Len(polymers)
    /\ com' = centreOfMass(polymers[ip + 1])
    /\ Rg2' = gyration2(polymers[ip + 1], com')
    /\ pc' = "append"
    /\ UNCHANGED <<nb, i, otherThanRg, trajectory_len, topology, traj_frame,
                   unwrapped_positions, bonds, polymer_delimiters, polymers, ip,
                   rg2, rg2_timestep>>

\* AppendRg2 as it would be with the step appended once per frame
AppendRg2StepPerFrame ==
    /\ nb = "pbc" /\ pc = "append"
    /\ rg2' = Append(rg2, Rg2)
    /\ rg2_timestep' = IF ip = 0 THEN Append(rg2_timestep, traj_frame.step)
                       ELSE rg2_timestep
    /\ ip' = ip + 1
    /\ pc' = "for_p"
    /\ UNCHANGED <<nb, i, otherThanRg, trajectory_len, topology, traj_frame,
                   unwrapped_positions, bonds, polymer_delimiters, polymers, com, Rg2>>

\* rg2.append(Rg2); timestep.append(frame.configuration.step)
AppendRg2 ==
    /\ nb = "pbc" /\ pc = "append"
    /\ rg2' = Append(rg2, Rg2)
    /\ rg2_timestep' = Append(rg2_timestep, traj_frame.step)
    /\ ip' = ip + 1
    /\ pc' = "for_p"
    /\ UNCHANGED <<nb, i, otherThanRg, trajectory_len, topology, traj_frame,
                   unwrapped_positions, bonds, polymer_delimiters, polymers, com, Rg2>>

\* the inner loop is over: on to the next frame
NextFrame ==
    /\ nb = "pbc" /\ pc = "for_p"
    /\ ip = Len(polymers)
    /\ pc' = "for_frame"
    /\ UNCHANGED <<nb, i, otherThanRg, rgVars>>

\* the trajectory is processed
EndRg ==
    /\ nb = "pbc" /\ pc = "for_frame"
    /\ i = trajectory_len
    /\ pc' = "done"
    /\ UNCHANGED <<nb, i, otherThanRg, rgVars>>

InitRg ==
    /\ RenderUnbound
    /\ ExampleUnbound
    /\ MovieUnbound
    /\ BlockUnbound
    /\ VelUnbound
    /\ nb = "pbc" /\ pc = "rg_cell"
    /\ i = 0
    /\ NoEngine /\ LoopsUnbound /\ IntegratorUnset /\ PolymerUnbound
    /\ EnergyUnbound /\ DistUnbound
    /\ trajectory_len \in 1..MaxFrames
    /\ topology \in Topologies
    /\ traj_frame = <<>>
    /\ unwrapped_positions = <<>> /\ bonds = <<>> /\ polymer_delimiters = <<>>
    /\ polymers = <<>> /\ ip = 0 /\ com = <<>> /\ Rg2 = <<>>
    /\ rg2 = <<>> /\ rg2_timestep = <<>>

NextRg ==
    \/ StartRg \/ ReadFrame \/ ComputeRg2 \/ AppendRg2 \/ NextFrame \/ EndRg

SpecRg == InitRg /\ [][NextRg]_vars

\* the particles joined to particle a by the bonds g, itself included
RECURSIVE chainOf(_, _)
chainOf(g, S) ==
    LET T == S \cup {g[k][1] : k \in {m \in 1..Len(g) : g[m][2] \in S}}
                \cup {g[k][2] : k \in {m \in 1..Len(g) : g[m][1] \in S}}
    IN  IF T = S THEN S ELSE chainOf(g, T)

\* the chains of the bonds g
chainsOf(g) == {chainOf(g, {a}) : a \in 0..(particlesOf(g) - 1)}

\* the c-th chain of g, chains ordered by their first particle
chainNo(g, c) ==
    CHOOSE ch \in chainsOf(g) :
        Cardinality({o \in chainsOf(g) : \E a \in o : \A b \in ch : a < b}) = c - 1

\* the sum of f[a] over the particles a of S
RECURSIVE sumOver(_, _)
sumOver(S, f) ==
    IF S = {} THEN 0
    ELSE LET a == CHOOSE b \in S : TRUE IN f[a] + sumOver(S \ {a}, f)

\* the mean over the beads of chain ch of the squared distance of the unwrapped
\* position to the mean unwrapped position of the chain, from the frame itself:
\* the sum over the beads of |n u - sum of u|^2, over n^3
meanSquaredRadius(fr, ch) ==
    LET n == Cardinality(ch)
        u == [a \in ch |->
                <<fr.position[a + 1][1] + fr.image[a + 1][1] * fr.box[1],
                  fr.position[a + 1][2] + fr.image[a + 1][2] * fr.box[2],
                  fr.position[a + 1][3] + fr.image[a + 1][3] * fr.box[3]>>]
        S1 == sumOver(ch, [a \in ch |-> u[a][1]])
        S2 == sumOver(ch, [a \in ch |-> u[a][2]])
        S3 == sumOver(ch, [a \in ch |-> u[a][3]])
        sq == [a \in ch |-> (n * u[a][1] - S1) * (n * u[a][1] - S1)
                            + (n * u[a][2] - S2) * (n * u[a][2] - S2)
                            + (n * u[a][3] - S3) * (n * u[a][3] - S3)]
    IN  Rat(sumOver(ch, sq), n * n * n)

\* C10: for each frame and each chain Rg2 is the mean over the chain's beads
\* of the squared distance of the unwrapped position to the chain's centre of
\* mass; one value per chain per frame is appended to rg2 together with the
\* frame's step, so len(rg2) = len(timestep), after the loop both are
\* frames x chains, and timestep never decreases.
C10_OnePerChainPerFrame ==
    LET nch == Cardinality(chainsOf(topology))
    IN  /\ pc \in {"for_p", "append", "for_frame", "done"} =>
              /\ Len(rg2) = Len(rg2_timestep)
              /\ Len(rg2) = IF pc = "for_frame" \/ pc = "done" THEN i * nch
                            ELSE (i - 1) * nch + ip
              /\ \A m \in 1..(Len(rg2_timestep) - 1) :
                    rg2_timestep[m] <= rg2_timestep[m + 1]
        /\ pc \in {"for_p", "append"} =>
              /\ Len(polymers) = nch
              /\ \A c \in 1..ip :
                    /\ RatEq(rg2[(i - 1) * nch + c],
                             meanSquaredRadius(traj_frame, chainNo(topology, c)))
                    /\ rg2_timestep[(i - 1) * nch + c] = traj_frame.step
        /\ pc = "done" =>
              /\ i = trajectory_len
              /\ Len(rg2) = trajectory_len * nch
              /\ Len(rg2_timestep) = trajectory_len * nch

C10_Witness ==
    /\ pc = "done"
    /\ trajectory_len = 2
    /\ Len(polymers) = 2
    /\ Len(rg2) = 4
    /\ rg2_timestep = <<0, 0, 10, 10>>
    /\ traj_frame.image[1] = <<0, 0, 0>>
    /\ traj_frame.image[2] = <<1, 0, -1>>
    /\ rg2[3] # rg2[1]

\* C18: the unwrapped positions are position + image * box[0:3]: along every
\* axis the unwrapped coordinate differs from the stored one by the image
\* count times the box length of that axis, equals the stored one when the
\* image is zero, and wrapped back into the box it is the stored coordinate.
C18_UnwrapByImages ==
    (nb = "pbc" /\ unwrapped_positions # <<>>) =>
      /\ Len(unwrapped_positions) = Len(traj_frame.position)
      /\ \A j \in 1..Len(unwrapped_positions) : \A c \in 1..3 :
           /\ unwrapped_positions[j][c] - traj_frame.position[j][c]
                = traj_frame.image[j][c] * traj_frame.box[c]
           /\ traj_frame.image[j][c] = 0
                => unwrapped_positions[j][c] = traj_frame.position[j][c]
           /\ wrapInto(unwrapped_positions[j][c], traj_frame.box[c])
                = traj_frame.position[j][c]

C18_Witness ==
    /\ nb = "pbc" /\ pc = "for_p"
    /\ traj_frame.position[2] = <<1, 1, 0>>
    /\ traj_frame.image[2] = <<1, 0, -1>>
    /\ unwrapped_positions[2] = <<5, 1, -4>>
    /\ traj_frame.image[1] = <<0, 0, 0>>
    /\ unwrapped_positions[1] = <<-1, 0, 1>>

(***************************************************************************)
(* Notebook "mpcd": the initial velocities of the MPCD particles.          *)
(***************************************************************************)
\* the values rng.normal returns for one component
Draws == {-2, 1}

\* velocity = rng.normal(0.0, numpy.sqrt(kT / mass), (snapshot.mpcd.N, 3))
DrawVelocities ==
    /\ nb = "mpcd" /\ pc = "draw_velocity"
    /\ velocity' \in [1..mpcd_N -> {<<Rat(a, 1), Rat(b, 1), Rat(c, 1)>> :
                                        a \in Draws, b \in Draws, c \in Draws}]
    /\ pc' = "subtract_mean"
    /\ UNCHANGED <<nb, i, otherThanVel, mpcd_N, snapshot_mpcd_velocity>>

\* numpy.mean(velocity, axis=0)
meanAxis0(v) == [c \in 1..3 |-> RatMean([k \in 1..Len(v) |-> v[k][c]])]

\* SubtractMean as it would be with the mean of the x components taken off
\* every component
SubtractMeanOfX ==
    /\ nb = "mpcd" /\ pc = "subtract_mean"
    /\ velocity' = [k \in 1..Len(velocity) |->
                       [c \in 1..3 |->
                           RatNorm(RatSub(velocity[k][c], meanAxis0(velocity)[1]))]]
    /\ pc' = "store_velocity"
    /\ UNCHANGED <<nb, i, otherThanVel, mpcd_N, snapshot_mpcd_velocity>>

\* velocity -= numpy.mean(velocity, axis=0)
SubtractMean ==
    /\ nb = "mpcd" /\ pc = "subtract_mean"
    /\ velocity' = [k \in 1..Len(velocity) |->
                       [c \in 1..3 |->
                           RatNorm(RatSub(velocity[k][c], meanAxis0(velocity)[c]))]]
    /\ pc' = "store_velocity"
    /\ UNCHANGED <<nb, i, otherThanVel, mpcd_N, snapshot_mpcd_velocity>>

\* snapshot.mpcd.velocity[:] = velocity
StoreVelocity ==
    /\ nb = "mpcd" /\ pc = "store_velocity"
    /\ snapshot_mpcd_velocity' = velocity
    /\ pc' = "velocity_set"
    /\ UNCHANGED <<nb, i, otherThanVel, mpcd_N, velocity>>

InitVel ==
    /\ RenderUnbound
    /\ ExampleUnbound
    /\ MovieUnbound
    /\ BlockUnbound
    /\ nb = "mpcd" /\ pc = "draw_velocity"
    /\ i = 0
    /\ NoEngine /\ LoopsUnbound /\ IntegratorUnset /\ PolymerUnbound
    /\ EnergyUnbound /\ DistUnbound /\ RgUnbound
    /\ mpcd_N \in 1..MaxMpcdN
    /\ velocity = <<>>
    /\ snapshot_mpcd_velocity = [k \in 1..mpcd_N |-> <<Rat(0, 1), Rat(0, 1), Rat(0, 1)>>]

NextVel == DrawVelocities \/ SubtractMean \/ StoreVelocity

SpecVel == InitVel /\ [][NextVel]_vars

\* C12: the per-component mean of the drawn velocities is taken off every
\* particle's velocity before the velocities are stored in the snapshot: the
\* stored velocities sum to zero in every Cartesian component, for every
\* particle count and every drawn sample.
C12_ZeroMeanVelocities ==
    /\ pc \in {"store_velocity", "velocity_set"} =>
          \A c \in 1..3 : RatSum([k \in 1..Len(velocity) |-> velocity[k][c]])[1] = 0
    /\ pc = "velocity_set" =>
          /\ Len(snapshot_mpcd_velocity) = mpcd_N
          /\ snapshot_mpcd_velocity = velocity
          /\ \A c \in 1..3 :
                RatSum([k \in 1..mpcd_N |-> snapshot_mpcd_velocity[k][c]])[1] = 0
    /\ pc \in {"draw_velocity", "subtract_mean", "store_velocity"} =>
          \A k \in 1..mpcd_N : \A c \in 1..3 : snapshot_mpcd_velocity[k][c][1] = 0

\* velocities with a mean that is not an integer were stored
C12_Witness ==
    /\ pc = "velocity_set" /\ mpcd_N = 2
    /\ snapshot_mpcd_velocity[1][1] = Rat(-3, 2)
    /\ snapshot_mpcd_velocity[2][1] = Rat(3, 2)

(***************************************************************************)
(* Notebook "langevin": block_average(data, num_blocks).  The standard     *)
(* error is held as its square; nan is the rational 0/0.                   *)
(***************************************************************************)
NaN == <<0, 0>>

\* np.mean of a sequence of rationals: nan for an empty one or one holding nan
npMean(s) ==
    IF s = <<>> \/ (\E k \in 1..Len(s) : s[k] = NaN) THEN NaN ELSE RatMean(s)

\* np.std(s, ddof=1) squared: the squared deviations from the mean summed and
\* divided by len(s) - 1; nan when that is 0 / 0
npVar1(s) ==
    IF s = <<>> \/ Len(s) = 1 \/ (\E k \in 1..Len(s) : s[k] = NaN) THEN NaN
    ELSE LET m == RatMean(s)
         IN  RatNorm(RatDivInt(
                 RatSum([k \in 1..Len(s) |-> RatMul(RatSub(s[k], m), RatSub(s[k], m))]),
                 Len(s) - 1))

\* the values of a sample
SampleValues == {0, 1, 3}

\* traj_length = len(data); block_size = traj_length // num_blocks
BlockSize ==
    /\ nb = "langevin" /\ pc = "block_average"
    /\ traj_length' = Len(ba_data)
    /\ block_size' = Len(ba_data) \div num_blocks
    /\ pc' = "reshape"
    /\ UNCHANGED <<nb, i, otherThanBlock, ba_data, num_blocks, blocks, block_means,
                   mean, std_error>>

\* reshaped as it would be with the samples dealt out to the blocks in turn
reshapedInTurn(d, rows, cols) ==
    [b \in 1..rows |-> [j \in 1..cols |-> d[(j - 1) * rows + b]]]

\* d.reshape((rows, cols)): row b holds d[(b-1)*cols : b*cols]
reshaped(d, rows, cols) ==
    [b \in 1..rows |-> [j \in 1..cols |-> d[(b - 1) * cols + j]]]

\* blocks = data[:num_blocks * block_size].reshape((num_blocks, block_size))
Reshape ==
    /\ nb = "langevin" /\ pc = "reshape"
    /\ blocks' = reshaped(SubSeq(ba_data, 1, num_blocks * block_size),
                          num_blocks, block_size)
    /\ pc' = "block_means"
    /\ UNCHANGED <<nb, i, otherThanBlock, ba_data, num_blocks, traj_length, block_size,
                   block_means, mean, std_error>>

\* block_means = np.mean(blocks, axis=1)
BlockMeans ==
    /\ nb = "langevin" /\ pc = "block_means"
    /\ block_means' = [b \in 1..Len(blocks) |->
                          npMean([j \in 1..Len(blocks[b]) |-> Rat(blocks[b][j], 1)])]
    /\ pc' = "mean"
    /\ UNCHANGED <<nb, i, otherThanBlock, ba_data, num_blocks, traj_length, block_size,
                   blocks, mean, std_error>>

\* mean = np.mean(block_means)
Mean ==
    /\ nb = "langevin" /\ pc = "mean"
    /\ mean' = npMean(block_means)
    /\ pc' = "std_error"
    /\ UNCHANGED <<nb, i, otherThanBlock, ba_data, num_blocks, traj_length, block_size,
                   blocks, block_means, std_error>>

\* std_error = np.std(block_means, ddof=1) / np.sqrt(num_blocks)
StdError ==
    /\ nb = "langevin" /\ pc = "std_error"
    /\ std_error' = IF npVar1(block_means) = NaN THEN NaN
                    ELSE RatNorm(RatDivInt(npVar1(block_means), num_blocks))
    /\ pc' = "return"
    /\ UNCHANGED <<nb, i, otherThanBlock, ba_data, num_blocks, traj_length, block_size,
                   blocks, block_means, mean>>

InitBlock ==
    /\ RenderUnbound
    /\ ExampleUnbound
    /\ MovieUnbound
    /\ nb = "langevin" /\ pc = "block_average"
    /\ i = 0
    /\ NoEngine /\ LoopsUnbound /\ IntegratorUnset /\ PolymerUnbound
    /\ EnergyUnbound /\ DistUnbound /\ RgUnbound /\ VelUnbound
    /\ ba_data \in UNION {[1..n -> SampleValues] : n \in 0..MaxData}
    /\ num_blocks \in 1..3
    /\ traj_length = 0 /\ block_size = 0
    /\ blocks = <<>> /\ block_means = <<>> /\ mean = <<>> /\ std_error = <<>>

NextBlock == BlockSize \/ Reshape \/ BlockMeans \/ Mean \/ StdError

SpecBlock == InitBlock /\ [][NextBlock]_vars

\* C14: block_average splits the first num_blocks * floor(len(data)/num_blocks)
\* samples, in order, into num_blocks contiguous blocks of equal size and
\* ignores the trailing ones; the returned mean is the mean of the block
\* means, which is the arithmetic mean of the used samples; the returned
\* standard error is the ddof = 1 standard deviation of the block means over
\* sqrt(num_blocks).
C14_BlockAverage ==
    pc = "return" =>
      LET size == Len(ba_data) \div num_blocks
          used == num_blocks * size
          total(s) == SumSeq([k \in 1..Len(s) |-> s[k]])
      IN  /\ Len(blocks) = num_blocks
          /\ \A b \in 1..num_blocks :
                /\ Len(blocks[b]) = size
                /\ \A j \in 1..size : blocks[b][j] = ba_data[(b - 1) * size + j]
          /\ Len(ba_data) - used = Len(ba_data) % num_blocks
          /\ \A b \in 1..num_blocks :
                IF size = 0 THEN block_means[b] = NaN
                ELSE RatEq(block_means[b], Rat(total(blocks[b]), size))
          /\ IF used = 0 THEN mean = NaN
             ELSE /\ mean # NaN
                  /\ RatEq(mean, Rat(total(SubSeq(ba_data, 1, used)), used))
                  /\ RatEq(RatMulInt(mean, num_blocks), RatSum(block_means))
          /\ IF used = 0 \/ num_blocks = 1 THEN std_error = NaN
             ELSE /\ std_error # NaN
                  \* std_error^2 * num_blocks * (num_blocks - 1) is the sum
                  \* of the squared deviations of the block means
                  /\ RatEq(RatMulInt(std_error, num_blocks * (num_blocks - 1)),
                           RatSum([b \in 1..num_blocks |->
                               RatMul(RatSub(block_means[b], mean),
                                      RatSub(block_means[b], mean))]))

\* a call whose data does not divide into the blocks and whose blocks differ
C14_Witness ==
    /\ pc = "return"
    /\ Len(ba_data) = 4 /\ num_blocks = 3
    /\ ba_data[4] = 3
    /\ mean = Rat(1, 3)
    /\ std_error = Rat(1, 9)

(***************************************************************************)
(* Notebook "pbc": the movie of the polymer trajectory.                    *)
(***************************************************************************)
\* the step of the slice trajectory[1::500]
stride == 500

\* trajectory[1::500][k], k counted from 0
sliceIndex(k) == 1 + k * stride

\* ims = []; a = render(trajectory[0]); im0 = ...
RenderFirst ==
    /\ nb = "pbc" /\ pc = "movie_cell"
    /\ ims' = <<>>
    /\ im0' = 0
    /\ i' = 0
    /\ pc' = "for_slice"
    /\ UNCHANGED <<nb, otherThanMovie, test_gif>>

\* for frame in trajectory[1::500]: a = render(frame); im = ...; ims.append(im)
RenderNext ==
    /\ nb = "pbc" /\ pc = "for_slice"
    /\ sliceIndex(i) < trajectory_len
    /\ ims' = Append(ims, sliceIndex(i))
    /\ i' = i + 1
    /\ UNCHANGED <<nb, pc, otherThanMovie, im0, test_gif>>

\* im0.save(filename, "gif", save_all=True, append_images=ims, ...)
SaveGif ==
    /\ nb = "pbc" /\ pc = "for_slice"
    /\ sliceIndex(i) >= trajectory_len
    /\ test_gif' = <<im0>> \o ims
    /\ pc' = "gif_saved"
    /\ UNCHANGED <<nb, i, otherThanMovie, im0, ims>>

InitMovie ==
    /\ RenderUnbound
    /\ ExampleUnbound
    /\ nb = "pbc" /\ pc = "movie_cell"
    /\ i = 0
    /\ NoEngine /\ LoopsUnbound /\ IntegratorUnset /\ PolymerUnbound
    /\ EnergyUnbound /\ DistUnbound /\ VelUnbound /\ BlockUnbound
    /\ trajectory_len \in 1..MaxTrajectory
    /\ topology = <<>> /\ traj_frame = <<>>
    /\ unwrapped_positions = <<>> /\ bonds = <<>> /\ polymer_delimiters = <<>>
    /\ polymers = <<>> /\ ip = 0 /\ com = <<>> /\ Rg2 = <<>>
    /\ rg2 = <<>> /\ rg2_timestep = <<>>
    /\ im0 = -1 /\ ims = <<>> /\ test_gif = <<>>

NextMovie == RenderFirst \/ RenderNext \/ SaveGif

SpecMovie == InitMovie /\ [][NextMovie]_vars

\* C15: the animated GIF holds every 500th frame of the trajectory only: it
\* begins with frame 0 and the trajectory indices of consecutive images
\* always differ by 500.
C15_Every500thFrame ==
    pc = "gif_saved" =>
      /\ test_gif[1] = 0
      /\ \A m \in 1..(Len(test_gif) - 1) : test_gif[m + 1] - test_gif[m] = 500

(***************************************************************************)
(* Notebook "viz": the example trajectory example.gsd and its movie.       *)
(***************************************************************************)
\* the positions of the atoms of hexane, in units of 10^-4
atomistic_positions ==
    <<
    <<31709, 2369, -1>>,
    <<18649, -5413, -114>>,
    <<6558, 3935, 1>>,
    <<-6558, -3932, 227>>,
    <<-18650, 5414, 1>>,
    <<-31709, -2372, -115>>,
    <<6840, 10388, -8865>>,
    <<7045, 10489, 8783>>,
    <<-6930, -10225, 9203>>,
    <<-6952, -10642, -8441>>,
    <<18337, -12015, 8633>>,
    <<18334, -11803, -9015>>,
    <<-18442, 11983, 8775>>,
    <<-18234, 11837, -8874>>,
    <<32485, 8856, -8784>>,
    <<40222, -4510, -96>>,
    <<32483, 8607, 8961>>,
    <<-32373, -8791, -8958>>,
    <<-32592, -8681, 8788>>,
    <<-40221, 4505, -263>>
    >>

\* pairs of indices of bonded atoms, counted from 0
atomistic_bonds ==
    <<
    <<0, 1>>, <<1, 2>>, <<2, 3>>, <<3, 4>>, <<4, 5>>,
    <<0, 14>>, <<0, 15>>, <<0, 16>>, <<1, 10>>, <<1, 11>>,
    <<2, 6>>, <<2, 7>>, <<3, 8>>, <<3, 9>>, <<4, 12>>,
    <<4, 13>>, <<5, 17>>, <<5, 18>>, <<5, 19>>
    >>

\* range(10)
num_frames == 10

\* the random displacements of one frame, in units of 10^-4
Displacements == {0, 1}

\* atomistic_positions + displacement
displaced(d) ==
    [k \in 1..Len(atomistic_positions) |->
        [c \in 1..3 |-> atomistic_positions[k][c] + d]]

\* numpy.ones(n) with typeid[0:6] = 0
typeidOf(n) == [k \in 1..n |-> IF k <= 6 THEN 0 ELSE 1]

make_frame(step, d) ==
    [step      |-> step,
     N         |-> Len(atomistic_positions),
     types     |-> <<"C", "H">>,
     typeid    |-> typeidOf(Len(atomistic_positions)),
     bonds_N   |-> Len(atomistic_bonds),
     bonds_group |-> atomistic_bonds,
     box       |-> <<10, 10, 10, 0, 0, 0>>,
     position  |-> displaced(d)]

\* trajectory = gsd.hoomd.open(name='example.gsd', mode='w')
OpenExample ==
    /\ nb = "viz" /\ pc = "open_example"
    /\ example_gsd' = <<>>
    /\ i' = 0
    /\ pc' = "extend"
    /\ UNCHANGED <<nb, otherThanExample>>

\* trajectory.extend((make_frame(i) for i in range(10))): the next frame
ExtendNext ==
    /\ nb = "viz" /\ pc = "extend"
    /\ i < num_frames
    /\ \E d \in Displacements :
         example_gsd' = Append(example_gsd, make_frame(i, d))
    /\ i' = i + 1
    /\ UNCHANGED <<nb, pc, otherThanExample>>

\* the generator is exhausted; trajectory.flush()
Flush ==
    /\ nb = "viz" /\ pc = "extend"
    /\ i >= num_frames
    /\ pc' = "gif_cell"
    /\ UNCHANGED <<nb, i, example_gsd, otherThanExample>>

\* render_frame(frame): the image is held as the step of the frame it shows
render_frame(fr) == fr.step

\* ims = []; im0 = render_frame(trajectory[0])
RenderFrame0 ==
    /\ nb = "viz" /\ pc = "gif_cell"
    /\ Len(example_gsd) > 0
    /\ ims' = <<>>
    /\ im0' = render_frame(example_gsd[1])
    /\ i' = 0
    /\ pc' = "for_frame"
    /\ UNCHANGED <<nb, otherThanMovie, test_gif>>

\* trajectory[2:]
restFromThird(traj) == SubSeq(traj, 3, Len(traj))

\* trajectory[1:]
rest(traj) == SubSeq(traj, 2, Len(traj))

\* for frame in trajectory[1:]: a = render_frame(frame); ims.append(a)
RenderRest ==
    /\ nb = "viz" /\ pc = "for_frame"
    /\ i < Len(rest(example_gsd))
    /\ ims' = Append(ims, render_frame(rest(example_gsd)[i + 1]))
    /\ i' = i + 1
    /\ UNCHANGED <<nb, pc, otherThanMovie, im0, test_gif>>

\* im0.save(filename, "gif", save_all=True, append_images=ims, ...)
SaveExampleGif ==
    /\ nb = "viz" /\ pc = "for_frame"
    /\ i >= Len(rest(example_gsd))
    /\ test_gif' = <<im0>> \o ims
    /\ pc' = "gif_saved"
    /\ UNCHANGED <<nb, i, otherThanMovie, im0, ims>>

InitExample ==
    /\ RenderUnbound
    /\ nb = "viz" /\ pc = "open_example"
    /\ i = 0
    /\ NoEngine /\ LoopsUnbound /\ IntegratorUnset /\ PolymerUnbound
    /\ EnergyUnbound /\ DistUnbound /\ RgUnbound /\ VelUnbound /\ BlockUnbound
    /\ MovieUnbound
    /\ example_gsd = <<>>

NextExample ==
    OpenExample \/ ExtendNext \/ Flush \/ RenderFrame0 \/ RenderRest \/ SaveExampleGif

SpecExample == InitExample /\ [][NextExample]_vars

\* C16: example.gsd has exactly 10 frames with configuration.step 0, 1, ..., 9
\* in order, each of 20 particles (the first 6 of typeid 0, the other 14 of
\* typeid 1) and 19 bonds, and test.gif holds every frame of the trajectory
\* exactly once and in the order of the trajectory, frame 0 first.
C16_ExampleTrajectoryAndGif ==
    /\ \A k \in 1..Len(example_gsd) :
         /\ example_gsd[k].step = k - 1
         /\ example_gsd[k].N = 20
         /\ Len(example_gsd[k].position) = 20
         /\ \A a \in 1..20 : example_gsd[k].typeid[a] = (IF a <= 6 THEN 0 ELSE 1)
         /\ example_gsd[k].bonds_N = 19
         /\ Len(example_gsd[k].bonds_group) = 19
    /\ (nb = "viz" /\ pc \in {"gif_cell", "for_frame", "gif_saved"})
         => Len(example_gsd) = 10
    /\ (nb = "viz" /\ pc = "gif_saved") =>
         /\ Len(test_gif) = Len(example_gsd)
         /\ \A k \in 1..Len(test_gif) : test_gif[k] = example_gsd[k].step
         /\ test_gif = <<0, 1, 2, 3, 4, 5, 6, 7, 8, 9>>

C16_Witness ==
    /\ nb = "viz" /\ pc = "gif_saved"
    /\ im0 = 0
    /\ ims = <<1, 2, 3, 4, 5, 6, 7, 8, 9>>
    /\ test_gif = <<0, 1, 2, 3, 4, 5, 6, 7, 8, 9>>
    /\ example_gsd[1].position # example_gsd[10].position

(***************************************************************************)
(* Notebook "pbc": render(frame).                                          *)
(***************************************************************************)
\* boxes of the frames rendered: Lx, Ly, Lz
RenderBoxes == {<<4, 4, 4>>, <<8, 4, 4>>}

\* coordinates of the particles of the frames rendered
RenderCoords == {-2, 0, 1}

\* frames of three particles in the plane z = 0 with up to MaxBonds bonds
RenderFrames ==
    { [box |-> bx, N |-> 3, position |-> ps, bonds_N |-> Len(bg), bonds_group |-> bg] :
        bx \in RenderBoxes,
        ps \in [1..3 -> {<<x, y, 0>> : x \in RenderCoords, y \in RenderCoords}],
        bg \in UNION {[1..n -> {<<0, 1>>, <<1, 2>>, <<0, 2>>}] : n \in 0..MaxBonds} }

\* the square of numpy.linalg.norm(p - q)
norm2(p, q) ==
    (p[1] - q[1]) * (p[1] - q[1]) + (p[2] - q[2]) * (p[2] - q[2])
      + (p[3] - q[3]) * (p[3] - q[3])

\* numpy.where(bond_distances < L/2)[0]: the indices, counted from 0, of the
\* squared distances ds[k..] with 4 * ds < L^2
RECURSIVE whereLess(_, _, _)
whereLess(ds, bound2, k) ==
    IF k > Len(ds) THEN <<>>
    ELSE (IF 4 * ds[k] < bound2 THEN <<k - 1>> ELSE <<>>) \o whereLess(ds, bound2, k + 1)

\* scene, geometry = Sphere(N), geometry.position[:] = frame.particles.position
RenderSpheres ==
    /\ nb = "pbc" /\ pc = "render"
    /\ sphere_position' = scene_frame.position
    /\ pc' = "if_bonds"
    /\ UNCHANGED <<nb, i, otherThanRender, scene_frame, all_bonds, bond_distances,
                   bond_indices, filtered_bonds, cylinder>>

\* frame.bonds.N > 0: all_bonds = numpy.stack([position[group[:, 0]], position[group[:, 1]]], axis=1)
StackBonds ==
    /\ nb = "pbc" /\ pc = "if_bonds"
    /\ scene_frame.bonds_N > 0
    /\ all_bonds' = [b \in 1..scene_frame.bonds_N |->
          <<scene_frame.position[scene_frame.bonds_group[b][1] + 1],
            scene_frame.position[scene_frame.bonds_group[b][2] + 1]>>]
    /\ pc' = "filter"
    /\ UNCHANGED <<nb, i, otherThanRender, scene_frame, sphere_position, bond_distances,
                   bond_indices, filtered_bonds, cylinder>>

\* bond_distances (held as squares), L = box[0], bond_indices = where(bond_distances < L/2),
\* filtered_bonds = all_bonds[bond_indices]
FilterBonds ==
    /\ nb = "pbc" /\ pc = "filter"
    /\ LET ds == [b \in 1..Len(all_bonds) |-> norm2(all_bonds[b][1], all_bonds[b][2])]
           Lx == scene_frame.box[1]
           ix == whereLess(ds, Lx * Lx, 1)
       IN /\ bond_distances' = ds
          /\ bond_indices' = ix
          /\ filtered_bonds' = [k \in 1..Len(ix) |-> all_bonds[ix[k] + 1]]
    /\ pc' = "cylinders"
    /\ UNCHANGED <<nb, i, otherThanRender, scene_frame, sphere_position, all_bonds,
                   cylinder>>

\* bonds = fresnel.geometry.Cylinder(scene, N=len(filtered_bonds)); bonds.points[:] = filtered_bonds
DrawCylinders ==
    /\ nb = "pbc" /\ pc = "cylinders"
    /\ cylinder' = [N |-> Len(filtered_bonds), points |-> filtered_bonds]
    /\ pc' = "preview"
    /\ UNCHANGED <<nb, i, otherThanRender, scene_frame, sphere_position, all_bonds,
                   bond_distances, bond_indices, filtered_bonds>>

\* frame.bonds.N is 0: the body of the if is skipped
NoBonds ==
    /\ nb = "pbc" /\ pc = "if_bonds"
    /\ ~(scene_frame.bonds_N > 0)
    /\ pc' = "preview"
    /\ UNCHANGED <<nb, i, otherThanRender, renderVars>>

\* return fresnel.preview(scene)
Preview ==
    /\ nb = "pbc" /\ pc = "preview"
    /\ pc' = "rendered"
    /\ UNCHANGED <<nb, i, otherThanRender, renderVars>>

InitRender ==
    /\ nb = "pbc" /\ pc = "render"
    /\ i = 0
    /\ NoEngine /\ LoopsUnbound /\ IntegratorUnset /\ PolymerUnbound
    /\ EnergyUnbound /\ DistUnbound /\ RgUnbound /\ VelUnbound /\ BlockUnbound
    /\ MovieUnbound /\ ExampleUnbound
    /\ scene_frame \in RenderFrames
    /\ sphere_position = <<>>
    /\ all_bonds = <<>> /\ bond_distances = <<>> /\ bond_indices = <<>>
    /\ filtered_bonds = <<>> /\ cylinder = [N |-> -1, points |-> <<>>]

NextRender ==
    RenderSpheres \/ StackBonds \/ FilterBonds \/ DrawCylinders \/ NoBonds \/ Preview

SpecRender == InitRender /\ [][NextRender]_vars

\* bond b of the frame spans the periodic boundary: along some axis its two
\* particles are nearer to each other through the boundary than inside the box
spansBoundary(fr, b) ==
    LET p == fr.position[fr.bonds_group[b][1] + 1]
        q == fr.position[fr.bonds_group[b][2] + 1]
    IN \E c \in 1..3 :
         2 * (IF p[c] >= q[c] THEN p[c] - q[c] ELSE q[c] - p[c]) > fr.box[c]

\* bond b of the frame is drawn as a cylinder
drawn(b) == cylinder.N >= 0 /\ \E k \in 1..Len(bond_indices) : bond_indices[k] = b - 1

\* C17: render draws cylinders only when frame.bonds.N > 0, and then a
\* cylinder for a bond if and only if the distance between the stored
\* positions of its two particles is less than L/2, L the x length of the
\* box; no bond that spans the periodic boundary is drawn, there are at most
\* frame.bonds.N cylinders, and the end points of every cylinder are the
\* positions of the two particles of one bond.
C17_BondsWithinHalfBox ==
    (nb = "pbc" /\ pc = "rendered") =>
      /\ (cylinder.N >= 0) <=> (scene_frame.bonds_N > 0)
      /\ \A b \in 1..scene_frame.bonds_N :
           /\ drawn(b) <=>
                4 * norm2(scene_frame.position[scene_frame.bonds_group[b][1] + 1],
                          scene_frame.position[scene_frame.bonds_group[b][2] + 1])
                  < scene_frame.box[1] * scene_frame.box[1]
           /\ spansBoundary(scene_frame, b) => ~drawn(b)
      /\ cylinder.N >= 0 =>
           /\ cylinder.N <= scene_frame.bonds_N
           /\ Len(cylinder.points) = cylinder.N
           /\ \A k \in 1..Len(cylinder.points) :
                \E b \in 1..scene_frame.bonds_N :
                  cylinder.points[k] =
                    <<scene_frame.position[scene_frame.bonds_group[b][1] + 1],
                      scene_frame.position[scene_frame.bonds_group[b][2] + 1]>>

\* the sum of the x coordinates of beads 0..k of p, as halves
RECURSIVE sumTwiceX(_, _)
sumTwiceX(p, k) ==
    IF k < 0 THEN 0
    ELSE (2 * p[k][1][1]) \div p[k][1][2] + sumTwiceX(p, k - 1)

\* C6: in the frame built by the polymer cell the N beads lie on the x axis
\* (y = z = 0), bead k at x = k*bond - (N-1)*bond/2, consecutive beads exactly
\* bond apart, the first and the last bead mirror images about the origin,
\* the x coordinates summing to zero, every bead strictly inside (-L/2, L/2).
C6_BeadsCentredOnAxis ==
    pc \in {"write", "done"} =>
        LET p == frame.particles_position
        IN  /\ DOMAIN p = 0..(N - 1)
            /\ frame.particles_N = N
            /\ \A k \in 0..(N - 1) :
                  /\ p[k][2][1] = 0 /\ p[k][3][1] = 0
                  /\ 2 * p[k][1][1] = (2 * k * bond - (N - 1) * bond) * p[k][1][2]
                  /\ RatLess(Rat(-polymerL, 2), p[k][1])
                  /\ RatLess(p[k][1], Rat(polymerL, 2))
            /\ \A k \in 0..(N - 2) :
                  RatEq(RatSub(p[k + 1][1], p[k][1]), Rat(bond, 1))
            /\ RatEq(RatAdd(p[0][1], p[N - 1][1]), Rat(0, 1))
            /\ sumTwiceX(p, N - 1) = 0

C6_Witness ==
    /\ pc = "write" /\ i = N
    /\ frame.particles_position[0] = <<Rat(-29, 2), Rat(0, 1), Rat(0, 1)>>
    /\ frame.particles_position[N - 1] = <<Rat(29, 2), Rat(0, 1), Rat(0, 1)>>

\* the particles bonded to particle a in bond array g
bonded(g, a) ==
    {b \in 0..(N - 1) : \E k \in DOMAIN g : g[k] = <<a, b>> \/ g[k] = <<b, a>>}

\* the particles reached from the set S along the bonds of g
RECURSIVE reached(_, _)
reached(g, S) ==
    LET T == S \cup UNION {bonded(g, a) : a \in S}
    IN  IF T = S THEN S ELSE reached(g, T)

\* the number of bond ends of g at particle a
bondEnds(g, a) ==
    Cardinality({k \in DOMAIN g : g[k][1] = a}) + Cardinality({k \in DOMAIN g : g[k][2] = a})

\* C7: the polymer frame has exactly N-1 bonds, bond k joins particle k to
\* particle k+1; every bond index is a valid particle index, the end beads
\* have one bond and the interior beads two, and the bond graph is connected
\* and has no cycle (connected with N-1 distinct proper bonds on N beads).
C7_LinearChain ==
    pc \in {"write", "done"} =>
        LET g == frame.bonds_group
        IN  /\ frame.bonds_N = N - 1
            /\ DOMAIN g = 0..(N - 2)
            /\ DOMAIN frame.bonds_typeid = 0..(N - 2)
            /\ \A k \in 0..(N - 2) :
                  /\ g[k] = <<k, k + 1>>
                  /\ g[k][1] \in 0..(frame.particles_N - 1)
                  /\ g[k][2] \in 0..(frame.particles_N - 1)
                  /\ g[k][1] # g[k][2]
            /\ \A k, m \in 0..(N - 2) :
                  k # m => {g[k][1], g[k][2]} # {g[m][1], g[m][2]}
            /\ bondEnds(g, 0) = 1 /\ bondEnds(g, N - 1) = 1
            /\ \A a \in 1..(N - 2) : bondEnds(g, a) = 2
            /\ reached(g, {0}) = 0..(N - 1)

C7_Witness ==
    /\ pc = "done"
    /\ polymer_gsd.frames = <<frame>>
    /\ frame.bonds_group[N - 2] = <<N - 2, N - 1>>

\* C8: in both polymer notebooks the clean-up cell ends without raising, no
\* polymer.gsd exists after it, and after the construction cell polymer.gsd
\* exists and holds exactly one frame.
C8_CleanUpNeverRaises ==
    /\ pc \in {"build", "place", "write"} =>
          raised = "" /\ ~polymer_gsd.exists
    /\ pc = "done" =>
          raised = "" /\ polymer_gsd.exists /\ Len(polymer_gsd.frames) = 1

====
